---- MODULE Spec2Model ----
(***************************************************************************)
(* Holdings-change detection and reconciliation engine of etf-monitor.     *)
(*                                                                         *)
(* Source: src/improved_etf_scraper_cloud.py (ETFHoldingsScraper) and      *)
(* src/database_config.py (DatabaseConfig).                                *)
(*                                                                         *)
(* The two tables etf_holdings and holdings_changes are modelled as a      *)
(* function from the indexed key (etf_code, date) to the sequence of rows  *)
(* with that key, in insertion order.  The columns id, created_at and unit *)
(* are not modelled: no statement of the engine branches on them.  Dates   *)
(* are integers ordered like the ISO strings the program compares.         *)
(***************************************************************************)
EXTENDS Integers, Sequences, FiniteSets, TLC

VARIABLES
    db_type,        \* db_config.db_type: "postgresql" or "sqlite"
    holdings,       \* table etf_holdings, committed rows
    changes,        \* table holdings_changes, committed rows
    holdings_run,   \* history: run whose transaction last replaced the key's etf_holdings rows
    changes_run,    \* history: run whose transaction last replaced the key's holdings_changes rows
    runs,           \* history: number of scrape_single_etf calls so far
    last,           \* history: outcome of the most recent scrape_single_etf call
    d_previous,     \* change detector alone: the prior map handed to it
    d_current,      \* change detector alone: the current batch handed to it
    d_changes,      \* change detector alone: the change list it returned
    d_phase,        \* change detector alone: "off", "input" or "done"
    c_versions,     \* concurrent runs: the row versions of both tables
    c_next,         \* concurrent runs: the id of the next inserted row
    c_writer,       \* concurrent runs: where each run is in scrape_single_etf
    c_outputs,      \* history: what each committed concurrent run had to store
    c_seen,         \* concurrent runs: what the last read query returned
    p_data,         \* parser alone: the Data array handed to parse_holdings_data
    p_today,        \* parser alone: the day datetime.now() gives
    p_out,          \* parser alone: the list parse_holdings_data returned
    p_phase,        \* parser alone: "off", "input" or "done"
    v_app,          \* cross-fund view: "none", or the application that answered
    v_date,         \* cross-fund view: the date asked for
    v_view,         \* cross-fund view: the rows the grouping query returned
    w_now,          \* web application: the clock, in ticks
    w_sessions,     \* web application: session_manager.sessions
    w_issued,       \* history: the creation time of each session id generated so far
    w_requests,     \* web application: rate_limiter.requests, timestamps by client IP
    w_api,          \* web application: rate_limiter.api_requests and api_reset_time
    w_last,         \* history: the most recent request and its response
    w_admitted,     \* history: timestamps of the admitted web requests of the last hour
    w_ended,        \* history: session ids deleted from the table on expiry or logout
    a_i,            \* scrape_all_etfs: 0 outside a run, else the position i of the loop
    a_success_count, \* scrape_all_etfs: success_count
    a_failed_etfs,  \* scrape_all_etfs: failed_etfs
    a_attempted,    \* history: the funds scrape_single_etf was called for in this run
    a_committed,    \* history: the funds whose transaction committed in this run
    a_returned,     \* history: what the last finished scrape_all_etfs returned, or -1
    k_conn,         \* connections: the state of each database connection
    k_user          \* connections: where each user of get_connection is

vars == <<db_type, holdings, changes, holdings_run, changes_run, runs, last,
          d_previous, d_current, d_changes, d_phase,
          c_versions, c_next, c_writer, c_outputs, c_seen,
          p_data, p_today, p_out, p_phase, v_app, v_date, v_view,
          w_now, w_sessions, w_issued, w_requests, w_api, w_last, w_admitted, w_ended,
          a_i, a_success_count, a_failed_etfs, a_attempted, a_committed, a_returned,
          k_conn, k_user>>

store == <<holdings, changes, holdings_run, changes_run>>

detector == <<d_previous, d_current, d_changes, d_phase>>

concurrent == <<c_versions, c_next, c_writer, c_outputs, c_seen>>

parser == <<p_data, p_today, p_out, p_phase>>

crossview == <<v_app, v_date, v_view>>

web == <<w_now, w_sessions, w_issued, w_requests, w_api, w_last, w_admitted, w_ended>>

allrun == <<a_i, a_success_count, a_failed_etfs, a_attempted, a_committed, a_returned>>

pool == <<k_conn, k_user>>

----------------------------------------------------------------------------
(* Bounds of the model *)

MaxDate == 2

MaxShares == 2

MaxBatch == 2

MaxRuns == 2

MaxHistory == 3

MaxWeight == 1

MaxPrior == 2

MaxCurrent == 2

MaxAll == 2

MaxUses == 2

----------------------------------------------------------------------------
(* Domains *)

Funds == {"00980A", "00981A"}

\* The fund of the runs that concern one fund only.
DetectFund == "00980A"

Stocks == {"2330", "2317"}

DetectStocks == Stocks \cup {"2454"}

Dates == 1..MaxDate

Keys == Funds \X Dates

DbTypes == {"postgresql", "sqlite"}

\* The storage statement, or swallowed step, that raises in a run.
Faults == {"none", "lookup", "detect", "delete_holdings", "delete_changes",
           "insert_holdings", "insert_changes", "commit"}

SeqsUpTo(S, n) == UNION {[1..k -> S] : k \in 0..n}

Max(S) == CHOOSE x \in S : \A y \in S : y <= x

----------------------------------------------------------------------------
(* Python dict with insertion order: a sequence of <<key, value>> pairs    *)
(* with pairwise different keys.                                           *)

DictKeys(d) == {d[i][1] : i \in DOMAIN d}

DictHas(d, k) == k \in DictKeys(d)

DictGet(d, k) == d[CHOOSE i \in DOMAIN d : d[i][1] = k][2]

DictSet(d, k, v) ==
    IF DictHas(d, k)
    THEN [i \in DOMAIN d |-> IF d[i][1] = k THEN <<k, v>> ELSE d[i]]
    ELSE Append(d, <<k, v>>)

----------------------------------------------------------------------------
(* Row Normalizer: parse_date_from_api and parse_holdings_data.            *)
(*                                                                         *)
(* A raw row is [sized, cells]: sized is FALSE for an element of Data that *)
(* has no len() (a JSON null), and cells is the list                       *)
(* <<date, stock_code, stock_name, weight, shares, unit>>, possibly        *)
(* shorter.  The code and name cells are strings or None; the weight and   *)
(* shares cells are strings written as sequences of characters; the date   *)
(* cell d in Dates stands for a string in which one of date_patterns finds *)
(* day d, and BadDate for any other value.                                 *)

None == "<None>"

BadDate == 0

\* str(x).strip() of a code or name cell.
StrStrip(cell) ==
    IF cell = None THEN "None"
    ELSE IF cell = " " THEN ""
    ELSE cell

DigitChars == <<"0", "1", "2", "3", "4", "5", "6", "7", "8", "9">>

Digits == {"0", "1", "2", "3", "4", "5", "6", "7", "8", "9"}

IsDigit(c) == c \in Digits

DigitValue(c) ==
    CASE c = "0" -> 0 [] c = "1" -> 1 [] c = "2" -> 2 [] c = "3" -> 3 [] c = "4" -> 4
      [] c = "5" -> 5 [] c = "6" -> 6 [] c = "7" -> 7 [] c = "8" -> 8 [] c = "9" -> 9

\* The decimal digits of a natural number: what the API writes for it.
RECURSIVE DigitsOf(_)
DigitsOf(n) ==
    IF n < 10 THEN <<DigitChars[n + 1]>>
    ELSE Append(DigitsOf(n \div 10), DigitChars[(n % 10) + 1])

\* str.strip() of a sequence of characters.
RECURSIVE Strip(_)
Strip(chars) ==
    IF chars = <<>> THEN <<>>
    ELSE IF Head(chars) = " " THEN Strip(Tail(chars))
    ELSE IF chars[Len(chars)] = " " THEN Strip(SubSeq(chars, 1, Len(chars) - 1))
    ELSE chars

\* shares_str.replace(',', '')
RemoveCommas(chars) == SelectSeq(chars, LAMBDA c : c /= ",")

\* The number written by the first n characters of a string of digits.
RECURSIVE DigitsValueTo(_, _)
DigitsValueTo(chars, n) ==
    IF n = 0 THEN 0
    ELSE 10 * DigitsValueTo(chars, n - 1) + DigitValue(chars[n])

DigitsValue(chars) == DigitsValueTo(chars, Len(chars))

\* The strings int() accepts: an optional sign and one digit or more.
IsIntLiteral(chars) ==
    LET body == IF chars /= <<>> /\ Head(chars) \in {"-", "+"} THEN Tail(chars) ELSE chars
    IN body /= <<>> /\ \A i \in DOMAIN body : IsDigit(body[i])

IntOf(chars) ==
    IF Head(chars) = "-" THEN 0 - DigitsValue(Tail(chars))
    ELSE IF Head(chars) = "+" THEN DigitsValue(Tail(chars))
    ELSE DigitsValue(chars)

\* Lines 277-282: an empty cell and a ValueError both give 0.
ParseShares(cell) ==
    LET shares_str == Strip(cell)
        digits == RemoveCommas(shares_str)
    IN IF shares_str = <<>> THEN 0
       ELSE IF IsIntLiteral(digits) THEN IntOf(digits)
       ELSE 0

\* Lines 270-275, for weights written as whole numbers: float() takes the
\* strings int() takes, and a comma is a ValueError.
ParseWeight(cell) ==
    LET weight_str == Strip(cell)
    IN IF weight_str = <<>> THEN 0
       ELSE IF IsIntLiteral(weight_str) THEN IntOf(weight_str)
       ELSE 0

\* parse_date_from_api: the day found in the string, or the clock's day.
ParseDateFromApi(cell, today) == IF cell = BadDate THEN today ELSE cell

\* Lines 235-244: the date of the batch, from the first element of Data.
BatchDate(rows_data, today) ==
    IF Len(rows_data[1].cells) > 0
    THEN ParseDateFromApi(rows_data[1].cells[1], today)
    ELSE today

IsUsableRow_KeepsBlank(row) == TRUE

\* Line 267: the row has an instrument code and an instrument name.
IsUsableRow(row) == StrStrip(row.cells[2]) /= "" /\ StrStrip(row.cells[3]) /= ""

ParseRow(row, etf_code, data_date) ==
    [etf_code |-> etf_code, stock_code |-> StrStrip(row.cells[2]),
     stock_name |-> StrStrip(row.cells[3]),
     weight |-> ParseWeight(row.cells[4]), shares |-> ParseShares(row.cells[5]),
     update_date |-> data_date]

\* The loop of lines 253-299: an element without len() raises inside the
\* inner try and is skipped, like a short row and a row without code or name.
RECURSIVE ParseRows(_, _, _)
ParseRows(rows_data, etf_code, data_date) ==
    IF rows_data = <<>> THEN <<>>
    ELSE LET n == Len(rows_data)
             row == rows_data[n]
             done == ParseRows(SubSeq(rows_data, 1, n - 1), etf_code, data_date)
         IN IF ~row.sized THEN done
            ELSE IF Len(row.cells) < 6 THEN done
            ELSE IF IsUsableRow(row)
                 THEN Append(done, ParseRow(row, etf_code, data_date))
                 ELSE done

\* len(rows_data[0]) of line 237 is outside the inner try: when the first
\* element has no len() the outer handler returns [].
ParseHoldingsData(data, etf_code, today) ==
    IF data = <<>> THEN <<>>
    ELSE IF ~data[1].sized THEN <<>>
    ELSE ParseRows(data, etf_code, BatchDate(data, today))

----------------------------------------------------------------------------
(* Snapshot Store lookup: get_previous_holdings *)

RECURSIVE PreviousData(_)
PreviousData(holdings_results) ==
    IF holdings_results = <<>> THEN <<>>
    ELSE LET n == Len(holdings_results)
             row == holdings_results[n]
         IN DictSet(PreviousData(SubSeq(holdings_results, 1, n - 1)),
                    row.stock_code,
                    [stock_name |-> row.stock_name, weight |-> row.weight,
                     shares |-> row.shares])

GetPreviousHoldings(tbl, etf_code, current_date, query_fails) ==
    IF query_fails THEN <<>>
    ELSE LET prev_dates == {d \in Dates : d < current_date /\ tbl[<<etf_code, d>>] /= <<>>}
         IN IF prev_dates = {} THEN <<>>
            ELSE PreviousData(tbl[<<etf_code, Max(prev_dates)>>])

----------------------------------------------------------------------------
(* Change Detector: analyze_holdings_changes *)

CurrentDict(current_holdings) ==
    LET RECURSIVE Build(_)
        Build(hs) ==
            IF hs = <<>> THEN <<>>
            ELSE LET n == Len(hs)
                 IN DictSet(Build(SubSeq(hs, 1, n - 1)), hs[n].stock_code, hs[n])
    IN Build(current_holdings)

Zero == [weight |-> 0, shares |-> 0]

\* The dict appended to changes; named gives the stock_name, old and new the
\* old_/new_ shares and weight.
ChangeRecord(etf_code, stock_code, named, change_type, old, new, current_date) ==
    [etf_code |-> etf_code, stock_code |-> stock_code,
     stock_name |-> named.stock_name, change_type |-> change_type,
     old_shares |-> old.shares, new_shares |-> new.shares,
     old_weight |-> old.weight, new_weight |-> new.weight,
     change_date |-> current_date]

ClassifyShares_GreaterOrEqual(new_shares, old_shares) ==
    IF new_shares >= old_shares THEN "INCREASED"
    ELSE IF new_shares < old_shares THEN "DECREASED"
    ELSE "NONE"

\* The comparison of the else branch: > is INCREASED, < is DECREASED, else nothing.
ClassifyShares(new_shares, old_shares) ==
    IF new_shares > old_shares THEN "INCREASED"
    ELSE IF new_shares < old_shares THEN "DECREASED"
    ELSE "NONE"

\* Body of the first loop for one entry of current_dict: zero or one record.
CurrentChange(etf_code, stock_code, current_data, previous_holdings, current_date) ==
    IF ~DictHas(previous_holdings, stock_code)
    THEN <<ChangeRecord(etf_code, stock_code, current_data, "NEW", Zero, current_data,
                       current_date)>>
    ELSE LET old_data == DictGet(previous_holdings, stock_code)
             kind == ClassifyShares(current_data.shares, old_data.shares)
         IN IF kind = "NONE" THEN <<>>
            ELSE <<ChangeRecord(etf_code, stock_code, current_data, kind, old_data,
                                current_data, current_date)>>

RemovedChange_Skipped(etf_code, stock_code, old_data, current_dict, current_date) == <<>>

\* Body of the second loop for one entry of previous_holdings: zero or one record.
RemovedChange(etf_code, stock_code, old_data, current_dict, current_date) ==
    IF ~DictHas(current_dict, stock_code)
    THEN <<ChangeRecord(etf_code, stock_code, old_data, "REMOVED", old_data, Zero,
                       current_date)>>
    ELSE <<>>

\* Lines 378-456: the detection proper, given the prior map.
DetectChanges(etf_code, current_holdings, previous_holdings, current_date) ==
    LET current_dict == CurrentDict(current_holdings)
        RECURSIVE CurrentLoop(_)
        CurrentLoop(entries) ==
            IF entries = <<>> THEN <<>>
            ELSE CurrentChange(etf_code, Head(entries)[1], Head(entries)[2],
                               previous_holdings, current_date)
                 \o CurrentLoop(Tail(entries))
        RECURSIVE RemovedLoop(_)
        RemovedLoop(entries) ==
            IF entries = <<>> THEN <<>>
            ELSE RemovedChange(etf_code, Head(entries)[1], Head(entries)[2],
                               current_dict, current_date)
                 \o RemovedLoop(Tail(entries))
    IN CurrentLoop(current_dict) \o RemovedLoop(previous_holdings)

\* fault "lookup": a query of get_previous_holdings raises; its handler
\* returns {}.  fault "detect": the detection raises; the handler returns [].
AnalyzeHoldingsChanges(tbl, etf_code, current_holdings, current_date, fault) ==
    IF fault = "detect" THEN <<>>
    ELSE DetectChanges(etf_code, current_holdings,
                       GetPreviousHoldings(tbl, etf_code, current_date, fault = "lookup"),
                       current_date)

----------------------------------------------------------------------------
(* Reconciliation Transaction: get_connection and save_to_database.        *)
(* A transaction works on a copy tx of the committed tables db; commit     *)
(* publishes the copy, rollback discards it.                               *)

\* init_database creates idx_unique_holding on PostgreSQL only.
UniqueIndexEnforced(dbtype) == dbtype = "postgresql"

DeleteHoldings_EveryFund(tx, etf_code, date, run) ==
    [tx EXCEPT !.holdings = [k \in Keys |-> IF k[2] = date THEN <<>> ELSE @[k]],
               !.holdings_run[<<etf_code, date>>] = run]

\* DELETE FROM etf_holdings WHERE etf_code = ? AND update_date = ?
DeleteHoldings(tx, etf_code, date, run) ==
    [tx EXCEPT !.holdings[<<etf_code, date>>] = <<>>,
               !.holdings_run[<<etf_code, date>>] = run]

DeleteChanges(tx, etf_code, date, run) ==
    [tx EXCEPT !.changes[<<etf_code, date>>] = <<>>,
               !.changes_run[<<etf_code, date>>] = run]

\* The insert loop of step 2; raised is TRUE when an INSERT hits the unique index.
RECURSIVE InsertHoldings(_, _, _, _)
InsertHoldings(tx, hs, run, dbtype) ==
    IF hs = <<>> THEN [tx |-> tx, raised |-> FALSE]
    ELSE LET holding == Head(hs)
             key == <<holding.etf_code, holding.update_date>>
             stored == tx.holdings[key]
             duplicate == \E i \in DOMAIN stored : stored[i].stock_code = holding.stock_code
         IN IF UniqueIndexEnforced(dbtype) /\ duplicate
            THEN [tx |-> tx, raised |-> TRUE]
            ELSE InsertHoldings([tx EXCEPT !.holdings[key] = Append(@, holding),
                                           !.holdings_run[key] = run],
                                Tail(hs), run, dbtype)

\* The insert loop of step 3.
RECURSIVE InsertChanges(_, _, _)
InsertChanges(tx, cs, run) ==
    IF cs = <<>> THEN tx
    ELSE LET change == Head(cs)
             key == <<change.etf_code, change.change_date>>
         IN InsertChanges([tx EXCEPT !.changes[key] = Append(@, change),
                                     !.changes_run[key] = run],
                          Tail(cs), run)

Rollback_NoTransaction(db, tx) == tx

\* conn.rollback() with autocommit off: the committed tables stay as they were.
Rollback(db, tx) == db

Commit_HoldingsOnly(db, tx) ==
    [db EXCEPT !.holdings = tx.holdings, !.holdings_run = tx.holdings_run]

\* conn.commit()
Commit(db, tx) == tx

\* fault names the statement that raises; the statements before it have run
\* inside the transaction.
SaveToDatabase(db, holdings_in, changes_in, fault, run, dbtype) ==
    IF holdings_in = <<>> THEN [db |-> db, ok |-> FALSE, error |-> "none"]
    ELSE LET etf_code == holdings_in[1].etf_code
             date == holdings_in[1].update_date
             t1 == DeleteHoldings(db, etf_code, date, run)
             t2 == DeleteChanges(t1, etf_code, date, run)
             r3 == InsertHoldings(t2, holdings_in, run, dbtype)
             t4 == InsertChanges(r3.tx, changes_in, run)
             Failed(tx, error) == [db |-> Rollback(db, tx), ok |-> FALSE, error |-> error]
         IN IF fault = "delete_holdings" THEN Failed(db, fault)
            ELSE IF fault = "delete_changes" THEN Failed(t1, fault)
            ELSE IF fault = "insert_holdings" THEN Failed(t2, fault)
            ELSE IF r3.raised THEN Failed(r3.tx, "unique_violation")
            ELSE IF fault = "insert_changes" /\ changes_in /= <<>> THEN Failed(r3.tx, fault)
            ELSE IF fault = "commit" THEN Failed(t4, fault)
            ELSE [db |-> Commit(db, t4), ok |-> TRUE, error |-> "none"]

----------------------------------------------------------------------------
(* scrape_single_etf *)

RawWeights == {1}

\* The name the API gives with an instrument code.
NameOf(stock_code) == IF stock_code = "2330" THEN "TSMC" ELSE "Hon Hai"

\* A six-cell element of Data.
RawRow(date, stock_code, stock_name, weight, shares) ==
    [sized |-> TRUE, cells |-> <<date, stock_code, stock_name, weight, shares, "shares">>]

\* The rows of one API answer: every row carries the answer's date; one row
\* has a blank instrument code.
RawRows(d) ==
    {RawRow(d, c, NameOf(c), DigitsOf(w), DigitsOf(n)) :
        c \in Stocks, w \in RawWeights, n \in 1..MaxShares}
    \cup {RawRow(d, "", "", DigitsOf(1), DigitsOf(1))}

RawBatches == UNION {SeqsUpTo(RawRows(d), MaxBatch) : d \in Dates}

\* The days datetime.now() can give when parse_holdings_data reads the clock;
\* a batch whose first row carries a date does not read it.
Clock(data) ==
    IF data /= <<>> /\ data[1].sized /\ Len(data[1].cells) > 0
       /\ data[1].cells[1] /= BadDate
    THEN {MaxDate}
    ELSE Dates

Database == [holdings |-> holdings, changes |-> changes,
             holdings_run |-> holdings_run, changes_run |-> changes_run]

\* Steps 3 and 4 of one call, given the holdings of step 2: what the call
\* does to the tables and what it returns.
ScrapeOutcome(db, etf_code, parsed, fault, run, dbtype) ==
    IF parsed = <<>>
    THEN [db |-> db, ok |-> FALSE, error |-> "none", rows |-> <<>>, previous |-> <<>>]
    ELSE LET data_date == parsed[1].update_date
             found == AnalyzeHoldingsChanges(db.holdings, etf_code, parsed, data_date, fault)
             saved == SaveToDatabase(db, parsed, found, fault, run, dbtype)
         IN [db |-> saved.db, ok |-> saved.ok,
             error |-> IF fault \in {"lookup", "detect"} /\ saved.error = "none"
                       THEN fault ELSE saved.error,
             rows |-> parsed,
             previous |-> GetPreviousHoldings(db.holdings, etf_code, data_date,
                                              fault = "lookup")]

\* The rows of a batch that have an instrument code and an instrument name.
Usable(data) ==
    {i \in DOMAIN data :
        /\ data[i].sized
        /\ Len(data[i].cells) >= 6
        /\ StrStrip(data[i].cells[2]) /= ""
        /\ StrStrip(data[i].cells[3]) /= ""}

\* One call of scrape_single_etf, the limit-th at most, in which the step
\* named by one of faults raises.
ScrapeCall(etf_code, data, faults, limit) ==
    /\ d_phase = "off"
    /\ runs < limit
    /\ \E today \in Clock(data) :
        \E parsed \in {ParseHoldingsData(data, etf_code, today)} :
        LET usable == Cardinality(Usable(data))
            date == IF data = <<>> \/ ~data[1].sized THEN 0 ELSE BatchDate(data, today)
        IN \E fault \in faults :
            \E out \in {ScrapeOutcome(Database, etf_code, parsed, fault, runs + 1, db_type)} :
               /\ usable = 0 => fault = "none"
               /\ holdings' = out.db.holdings
               /\ changes' = out.db.changes
               /\ holdings_run' = out.db.holdings_run
               /\ changes_run' = out.db.changes_run
               /\ last' = [etf |-> etf_code, date |-> date, usable |-> usable,
                           error |-> out.error, ok |-> out.ok,
                           rows |-> IF out.ok THEN out.rows ELSE <<>>,
                           rerun |-> last.ok /\ last.rows = out.rows,
                           previous |-> IF out.ok THEN out.previous ELSE <<>>]
    /\ runs' = runs + 1
    /\ UNCHANGED <<db_type, pool, detector, parser, crossview, web, concurrent>>

\* One call of scrape_single_etf outside scrape_all_etfs.
Scrape(etf_code, data, faults, limit) ==
    /\ ScrapeCall(etf_code, data, faults, limit)
    /\ UNCHANGED allrun

ScrapeSingleEtf(etf_code, data) == Scrape(etf_code, data, Faults, MaxRuns)

----------------------------------------------------------------------------
(* The web application (fastapi_app_cloud.py): the session table, the rate *)
(* limiter, the security middleware and the routes behind it.  Time is     *)
(* counted in ticks; a request is handled within one tick.  A session is   *)
(* [id, created_at, last_access]; session ids are numbered in the order    *)
(* secrets.token_urlsafe generates them, and 0 stands for no cookie.       *)

MaxTime == 3

MaxTokens == 2

\* settings.session_timeout, in ticks.
SessionTimeout == 2

\* timedelta(hours=1) of _check_hourly_limit, in ticks.
HourLen == 2

\* The length of a calendar day, in ticks.
DayLen == 3

\* settings.rate_limit_requests
RateLimitRequests == 2

\* settings.api_daily_limit
ApiDailyLimit == 2

\* settings.web_password
WebPassword == "etf2024"

Passwords == {WebPassword, "wrong"}

Ips == {"10.0.0.1", "10.0.0.2"}

\* The paths of the requests; on these, startswith of a public path and
\* equality with it coincide.
PublicPaths == {"/health", "/login", "/logout"}

ProtectedPaths == {"/", "/api/holdings"}

\* The paths check_rate_limit_middleware lets through unchecked.
UnlimitedPaths == {"/health", "/login", "/logout"}

IsApiPath(path) == path = "/api/holdings"

\* The requests of the clients to the routes of the application.
WebRequests(ips) ==
    [method : {"GET"}, path : {"/health", "/login", "/", "/api/holdings"},
     ip : ips, cookie : 0..MaxTokens, password : {""}]
    \cup [method : {"POST"}, path : {"/logout"}, ip : ips, cookie : 0..MaxTokens,
          password : {""}]
    \cup [method : {"POST"}, path : {"/login"}, ip : ips, cookie : {0},
          password : Passwords]

NoRequest ==
    [method |-> "", path |-> "", ip |-> "", cookie |-> 0, password |-> "", at |-> 0,
     status |-> 0, location |-> "", handled |-> FALSE, validated |-> FALSE,
     set_cookie |-> 0, limited |-> FALSE]

\* The application before it is started.
WebOff ==
    /\ w_now = 0
    /\ w_sessions = {}
    /\ w_issued = <<>>
    /\ w_requests = [ip \in Ips |-> <<>>]
    /\ w_api = [ip \in Ips |-> [count |-> 0, reset |-> -1]]
    /\ w_last = NoRequest
    /\ w_admitted = [ip \in Ips |-> <<>>]
    /\ w_ended = {}

IsExpired_SinceLastAccess(session, now) == now - session.last_access > SessionTimeout

\* now - session["created_at"] > timedelta(seconds=settings.session_timeout)
IsExpired(session, now) == now - session.created_at > SessionTimeout

\* cleanup_expired_sessions
CleanupExpiredSessions(sessions, now) == {s \in sessions : ~IsExpired(s, now)}

\* create_session: the new session under a new id, then the clean-up.
CreateSession(sessions, session_id, now) ==
    CleanupExpiredSessions(
        sessions \cup {[id |-> session_id, created_at |-> now, last_access |-> now]}, now)

\* validate_session: the answer and the session table it leaves.
ValidateSession_NoExpiry(sessions, session_id, now) ==
    IF \E s \in sessions : s.id = session_id
    THEN [ok |-> TRUE, sessions |-> sessions]
    ELSE [ok |-> FALSE, sessions |-> sessions]

ValidateSession(sessions, session_id, now) ==
    IF session_id = 0 THEN [ok |-> FALSE, sessions |-> sessions]
    ELSE IF ~\E s \in sessions : s.id = session_id
    THEN [ok |-> FALSE, sessions |-> sessions]
    ELSE LET session == CHOOSE s \in sessions : s.id = session_id
         IN IF IsExpired(session, now)
            THEN [ok |-> FALSE, sessions |-> sessions \ {session}]
            ELSE [ok |-> TRUE,
                  sessions |-> (sessions \ {session})
                               \cup {[session EXCEPT !.last_access = now]}]

VerifyPassword_Any(input_password) == TRUE

VerifyPassword(input_password) == input_password = WebPassword

HourlyFull_OneMore(timestamps) == Len(timestamps) > RateLimitRequests

\* len(self.requests[client_ip]) >= settings.rate_limit_requests
HourlyFull(timestamps) == Len(timestamps) >= RateLimitRequests

\* _check_hourly_limit: the answer and the list of the client it leaves.
CheckHourlyLimit(timestamps, now) ==
    LET kept == SelectSeq(timestamps, LAMBDA t : t > now - HourLen)
    IN IF HourlyFull(kept) THEN [ok |-> FALSE, timestamps |-> kept]
       ELSE [ok |-> TRUE, timestamps |-> Append(kept, now)]

DateOf(now) == now \div DayLen

\* _check_daily_api_limit: the answer and the counter of the client it leaves.
CheckDailyApiLimit(api, now) ==
    LET fresh == IF api.reset = -1 \/ DateOf(now) > DateOf(api.reset)
                 THEN [count |-> 0, reset |-> now] ELSE api
    IN IF fresh.count >= ApiDailyLimit THEN [ok |-> FALSE, api |-> fresh]
       ELSE [ok |-> TRUE, api |-> [fresh EXCEPT !.count = @ + 1]]

\* check_rate_limit_middleware: whether the request goes on, and both
\* tables of the rate limiter afterwards.
CheckRateLimit(request, requests, api, now) ==
    IF request.path \in UnlimitedPaths
    THEN [ok |-> TRUE, requests |-> requests, api |-> api]
    ELSE IF IsApiPath(request.path)
    THEN LET daily == CheckDailyApiLimit(api[request.ip], now)
         IN [ok |-> daily.ok, requests |-> requests,
             api |-> [api EXCEPT ![request.ip] = daily.api]]
    ELSE LET hourly == CheckHourlyLimit(requests[request.ip], now)
         IN [ok |-> hourly.ok,
             requests |-> [requests EXCEPT ![request.ip] = hourly.timestamps],
             api |-> api]

\* The route handlers: the response and the session table they leave.
\* login_submit
LoginSubmit(request, sessions, session_id, now) ==
    IF ~VerifyPassword(request.password)
    THEN [status |-> 302, location |-> "/login?error", set_cookie |-> 0,
          sessions |-> sessions]
    ELSE [status |-> 302, location |-> "/", set_cookie |-> session_id,
          sessions |-> CreateSession(sessions, session_id, now)]

\* logout
Logout(request, sessions) ==
    [status |-> 302, location |-> "/login", set_cookie |-> 0,
     sessions |-> {s \in sessions : s.id /= request.cookie}]

\* api_get_holdings checks the session again before it answers.
ApiGetHoldings(request, sessions, now) ==
    LET checked == ValidateSession(sessions, request.cookie, now)
    IN [status |-> IF checked.ok THEN 200 ELSE 401, location |-> "", set_cookie |-> 0,
        sessions |-> checked.sessions]

\* call_next: the route of the request.
CallNext(request, sessions, session_id, now) ==
    IF request.path = "/login" /\ request.method = "POST"
    THEN LoginSubmit(request, sessions, session_id, now)
    ELSE IF request.path = "/logout" THEN Logout(request, sessions)
    ELSE IF request.path = "/api/holdings" THEN ApiGetHoldings(request, sessions, now)
    ELSE [status |-> 200, location |-> "", set_cookie |-> 0, sessions |-> sessions]

\* security_middleware: the response, whether a route handler ran, whether
\* the session of the request was validated, and the tables it leaves.
SecurityMiddleware(request, sessions, requests, api, session_id, now) ==
    LET rate == CheckRateLimit(request, requests, api, now)
    IN IF ~rate.ok
       THEN [status |-> 429, location |-> "", set_cookie |-> 0, handled |-> FALSE,
             validated |-> FALSE, sessions |-> sessions,
             requests |-> rate.requests, api |-> rate.api]
       ELSE IF request.path \in PublicPaths
       THEN LET response == CallNext(request, sessions, session_id, now)
            IN [status |-> response.status, location |-> response.location,
                set_cookie |-> response.set_cookie, handled |-> TRUE,
                validated |-> FALSE, sessions |-> response.sessions,
                requests |-> rate.requests, api |-> rate.api]
       ELSE LET checked == ValidateSession(sessions, request.cookie, now)
            IN IF checked.ok
               THEN LET response == CallNext(request, checked.sessions, session_id, now)
                    IN [status |-> response.status, location |-> response.location,
                        set_cookie |-> response.set_cookie, handled |-> TRUE,
                        validated |-> TRUE, sessions |-> response.sessions,
                        requests |-> rate.requests, api |-> rate.api]
               ELSE [status |-> 302, location |-> "/login", set_cookie |-> 0,
                     handled |-> FALSE, validated |-> FALSE,
                     sessions |-> checked.sessions,
                     requests |-> rate.requests, api |-> rate.api]

\* One request through the middleware.
HandleRequest(request) ==
    /\ p_phase = "off"
    /\ (request.path = "/login" /\ request.method = "POST"
        /\ VerifyPassword(request.password)) => Len(w_issued) < MaxTokens
    /\ \E out \in {SecurityMiddleware(request, w_sessions, w_requests, w_api,
                                        Len(w_issued) + 1, w_now)} :
        /\ w_sessions' = out.sessions
        /\ w_requests' = out.requests
        /\ w_api' = out.api
        /\ w_issued' = IF out.set_cookie /= 0 THEN Append(w_issued, w_now) ELSE w_issued
        /\ w_last' = [method |-> request.method, path |-> request.path,
                      ip |-> request.ip, cookie |-> request.cookie,
                      password |-> request.password, at |-> w_now,
                      status |-> out.status, location |-> out.location,
                      handled |-> out.handled, validated |-> out.validated,
                      set_cookie |-> out.set_cookie,
                      limited |-> request.path \notin UnlimitedPaths]
        /\ w_admitted' =
               IF request.path \notin UnlimitedPaths /\ ~IsApiPath(request.path)
                  /\ out.status /= 429
               THEN [w_admitted EXCEPT ![request.ip] = Append(@, w_now)]
               ELSE w_admitted
        /\ w_ended' = w_ended
               \cup {s.id : s \in {x \in w_sessions :
                                       ~\E y \in out.sessions : y.id = x.id}}
    /\ UNCHANGED <<db_type, allrun, pool, store, runs, last, detector, concurrent, parser, crossview,
                   w_now>>

\* The clock moves on by one tick; the history forgets what left the hour.
Tick ==
    /\ p_phase = "off"
    /\ w_now < MaxTime
    /\ w_now' = w_now + 1
    /\ w_admitted' = [ip \in Ips |->
                         SelectSeq(w_admitted[ip], LAMBDA t : t > w_now + 1 - HourLen)]
    /\ UNCHANGED <<db_type, allrun, pool, store, runs, last, detector, concurrent, parser, crossview,
                   w_sessions, w_issued, w_requests, w_api, w_last, w_ended>>

----------------------------------------------------------------------------
(* The reconciliation engine *)

\* The runs that may execute at the same time.
Writers == {1, 2}

\* A run that has not started or has returned.
Idle == [pc |-> "idle", holdings |-> <<>>, changes |-> <<>>, at |-> 0, pending |-> {},
         returned |-> "none"]

NothingSeen == [key |-> <<"", 0>>, holdings |-> <<>>, changes |-> <<>>, during |-> {}]

NoRun == [etf |-> "", date |-> 0, usable |-> 0, error |-> "none", ok |-> FALSE,
          rows |-> <<>>, rerun |-> FALSE, previous |-> <<>>]

\* The parser alone and the cross-fund view take no part in a run.
----------------------------------------------------------------------------
(* Database connections (database_config.py get_connection and its users). *)
(* A connection is [open, out, autocommit, txn, by, acquired]: out is the   *)
(* user that holds it, or 0; autocommit is "True", "False", or "none" for a *)
(* SQLite connection, which has no such attribute; txn says a transaction   *)
(* is open on it; by and acquired record the operation that released it     *)
(* last and the autocommit value it had when that operation acquired it.    *)

Users == 1..2

Conns == 1..2

\* save_to_database, execute_query with a fetch, execute_query without.
Operations == {"save", "select", "write"}

NewConn == [open |-> FALSE, out |-> 0, autocommit |-> "none", txn |-> FALSE,
            by |-> "none", acquired |-> "none"]

IdleUser == [op |-> "none", pc |-> "idle", conn |-> 0, original |-> "none",
             acquired |-> "none", raised |-> FALSE, returned |-> "none", uses |-> 0]

PoolOff ==
    /\ k_conn = [c \in Conns |-> NewConn]
    /\ k_user = [u \in Users |-> IdleUser]

\* The users inside the with block of get_connection.
InBlock == {u \in Users : k_user[u].pc \notin {"idle", "getconn"}}

CheckedOut == {c \in Conns : k_conn[c].out /= 0}

\* cursor.execute on the connection: outside autocommit mode a statement
\* opens a transaction, and a SQLite connection opens one for a write.
Execute(conn, writes) ==
    [conn EXCEPT !.txn = IF conn.autocommit = "none" THEN (conn.txn \/ writes)
                         ELSE (conn.txn \/ conn.autocommit = "False")]

\* conn.commit() and conn.rollback() end the transaction.
EndTransaction(conn) == [conn EXCEPT !.txn = FALSE]

\* A finally clause that leaves the connection as the transaction left it.
RestoreAutocommit_Skip(conn, original) == conn

\* The finally clause of save_to_database: the autocommit value read before
\* the transaction is put back when the connection has the attribute.
RestoreAutocommit(conn, original) ==
    IF original /= "none" THEN [conn EXCEPT !.autocommit = original] ELSE conn

\* A user calls save_to_database or execute_query.
BeginUse(u, op) ==
    /\ k_user[u].pc = "idle"
    /\ k_user[u].uses < MaxUses
    /\ k_user' = [k_user EXCEPT ![u] = [IdleUser EXCEPT !.op = op, !.pc = "getconn",
                                                       !.uses = k_user[u].uses + 1]]
    /\ UNCHANGED <<db_type, store, runs, last, detector, concurrent, parser, crossview,
                   web, allrun, k_conn>>

\* The value the user of the connection returns or raises at its end.
ResultOf(op, raised) ==
    IF op = "save" THEN (IF raised THEN "False" ELSE "True")
    ELSE IF raised THEN "raise" ELSE "value"

\* get_connection up to its yield: pg_pool.getconn() and autocommit = True,
\* or sqlite3.connect.  With fails, the pool or the connect raises and the
\* user ends without a connection.
GetConn(u, fails) ==
    /\ k_user[u].pc = "getconn"
    /\ IF fails
       THEN /\ k_user' = [k_user EXCEPT ![u].pc = "idle",
                                        ![u].returned = ResultOf(k_user[u].op, TRUE)]
            /\ k_conn' = k_conn
       ELSE \E c \in Conns :
            /\ k_conn[c].out = 0
            /\ IF db_type = "postgresql" THEN TRUE ELSE ~k_conn[c].open
            /\ \E auto \in {IF db_type = "postgresql" THEN "True" ELSE "none"} :
                /\ k_conn' = [k_conn EXCEPT ![c] = [open |-> TRUE, out |-> u,
                                                    autocommit |-> auto,
                                                    txn |-> k_conn[c].txn /\ db_type = "postgresql",
                                                    by |-> k_conn[c].by,
                                                    acquired |-> k_conn[c].acquired]]
                /\ k_user' = [k_user EXCEPT ![u].conn = c,
                                            ![u].acquired = auto,
                                            ![u].pc = IF k_user[u].op = "save"
                                                      THEN "autocommit_off" ELSE "execute"]
    /\ UNCHANGED <<db_type, store, runs, last, detector, concurrent, parser, crossview,
                   web, allrun>>

\* save_to_database: original_autocommit is read and autocommit is set False.
AutocommitOff(u) ==
    /\ k_user[u].pc = "autocommit_off"
    /\ \E c \in {k_user[u].conn} :
        /\ k_user' = [k_user EXCEPT ![u].original = k_conn[c].autocommit,
                                    ![u].pc = "statement"]
        /\ k_conn' = [k_conn EXCEPT ![c].autocommit =
                          IF k_conn[c].autocommit /= "none" THEN "False" ELSE "none"]
    /\ UNCHANGED <<db_type, store, runs, last, detector, concurrent, parser, crossview,
                   web, allrun>>

\* save_to_database: a DELETE or an INSERT of the try block; it raises or
\* the block goes on, to the next statement or to the commit.
Statement(u, raises, more) ==
    /\ k_user[u].pc = "statement"
    /\ \E c \in {k_user[u].conn} :
        /\ k_conn' = [k_conn EXCEPT ![c] = Execute(k_conn[c], TRUE)]
        /\ k_user' = [k_user EXCEPT ![u].raised = raises,
                                    ![u].pc = IF raises THEN "rollback"
                                              ELSE IF more THEN "statement" ELSE "commit"]
    /\ UNCHANGED <<db_type, store, runs, last, detector, concurrent, parser, crossview,
                   web, allrun>>

\* save_to_database: conn.commit().
CommitUse(u, raises) ==
    /\ k_user[u].pc = "commit"
    /\ \E c \in {k_user[u].conn} :
        /\ k_conn' = IF raises THEN k_conn
                     ELSE [k_conn EXCEPT ![c] = EndTransaction(k_conn[c])]
        /\ k_user' = [k_user EXCEPT ![u].raised = raises,
                                    ![u].pc = IF raises THEN "rollback" ELSE "restore"]
    /\ UNCHANGED <<db_type, store, runs, last, detector, concurrent, parser, crossview,
                   web, allrun>>

\* save_to_database: the except clause of the try block, conn.rollback().
RollbackUse(u) ==
    /\ k_user[u].pc = "rollback"
    /\ \E c \in {k_user[u].conn} :
        /\ k_conn' = [k_conn EXCEPT ![c] = EndTransaction(k_conn[c])]
        /\ k_user' = [k_user EXCEPT ![u].pc = "restore"]
    /\ UNCHANGED <<db_type, store, runs, last, detector, concurrent, parser, crossview,
                   web, allrun>>

\* save_to_database: the finally clause of the try block.
Restore(u) ==
    /\ k_user[u].pc = "restore"
    /\ \E c \in {k_user[u].conn} :
        /\ k_conn' = [k_conn EXCEPT ![c] = RestoreAutocommit(k_conn[c], k_user[u].original)]
        /\ k_user' = [k_user EXCEPT ![u].pc = IF k_user[u].raised THEN "exit_except"
                                              ELSE "exit_finally"]
    /\ UNCHANGED <<db_type, store, runs, last, detector, concurrent, parser, crossview,
                   web, allrun>>

\* execute_query: cursor.execute and the fetch; without a fetch the SQLite
\* branch commits.
ExecuteQuery(u, raises) ==
    /\ k_user[u].pc = "execute"
    /\ \E c \in {k_user[u].conn} :
        \E ran \in {Execute(k_conn[c], k_user[u].op = "write")} :
            /\ k_conn' = [k_conn EXCEPT ![c] =
                              IF ~raises /\ k_user[u].op = "write" /\ db_type = "sqlite"
                              THEN EndTransaction(ran) ELSE ran]
            /\ k_user' = [k_user EXCEPT ![u].raised = raises,
                                        ![u].pc = IF raises THEN "exit_except"
                                                  ELSE "exit_finally"]
    /\ UNCHANGED <<db_type, store, runs, last, detector, concurrent, parser, crossview,
                   web, allrun>>

\* get_connection: the except clause, conn.rollback() before the re-raise.
ExitExcept(u) ==
    /\ k_user[u].pc = "exit_except"
    /\ \E c \in {k_user[u].conn} :
        /\ k_conn' = [k_conn EXCEPT ![c] = EndTransaction(k_conn[c])]
        /\ k_user' = [k_user EXCEPT ![u].pc = "exit_finally"]
    /\ UNCHANGED <<db_type, store, runs, last, detector, concurrent, parser, crossview,
                   web, allrun>>

\* get_connection: the finally clause, pg_pool.putconn(conn) or conn.close(),
\* after which the user returns or raises.
ExitFinally(u) ==
    /\ k_user[u].pc = "exit_finally"
    /\ \E c \in {k_user[u].conn} :
        /\ k_conn' = [k_conn EXCEPT ![c].out = 0,
                                    ![c].open = (db_type = "postgresql"),
                                    ![c].txn = k_conn[c].txn /\ db_type = "postgresql",
                                    ![c].by = k_user[u].op,
                                    ![c].acquired = k_user[u].acquired]
        /\ k_user' = [k_user EXCEPT ![u].pc = "idle",
                                    ![u].conn = 0,
                                    ![u].returned = ResultOf(k_user[u].op, k_user[u].raised)]
    /\ UNCHANGED <<db_type, store, runs, last, detector, concurrent, parser, crossview,
                   web, allrun>>

----------------------------------------------------------------------------
(* Initial states *)

\* No scrape_all_etfs run has started.
AllOff ==
    /\ a_i = 0
    /\ a_success_count = 0
    /\ a_failed_etfs = <<>>
    /\ a_attempted = <<>>
    /\ a_committed = <<>>
    /\ a_returned = -1

ParserOff == p_data = <<>> /\ p_today = 0 /\ p_out = <<>> /\ p_phase = "off"

ViewOff == v_app = "none" /\ v_date = 0 /\ v_view = <<>>

Init ==
    /\ db_type \in DbTypes
    /\ holdings = [k \in Keys |-> <<>>]
    /\ changes = [k \in Keys |-> <<>>]
    /\ holdings_run = [k \in Keys |-> 0]
    /\ changes_run = [k \in Keys |-> 0]
    /\ runs = 0
    /\ last = NoRun
    /\ d_previous = <<>>
    /\ d_current = <<>>
    /\ d_changes = <<>>
    /\ d_phase = "off"
    /\ c_versions = {}
    /\ c_next = 1
    /\ c_writer = [w \in Writers |-> Idle]
    /\ c_outputs = {}
    /\ c_seen = NothingSeen
    /\ ParserOff
    /\ ViewOff
    /\ WebOff
    /\ AllOff
    /\ PoolOff

Next == \E etf_code \in Funds, data \in RawBatches : ScrapeSingleEtf(etf_code, data)

Spec == Init /\ [][Next]_vars

----------------------------------------------------------------------------
(* Longer histories of one fund: up to MaxHistory runs with batches of     *)
(* usable rows for different instruments, where a run either meets no      *)
(* error or a storage error in the look-up of the prior snapshot.          *)

HistoryFaults == {"none", "lookup"}

HistoryBatches ==
    {b \in RawBatches :
        /\ b /= <<>>
        /\ \A i \in DOMAIN b : b[i].cells[2] /= ""
        /\ \A i, j \in DOMAIN b : i /= j => b[i].cells[2] /= b[j].cells[2]}

ScrapeAgain(data) == Scrape(DetectFund, data, HistoryFaults, MaxHistory)

NextHistory == \E data \in HistoryBatches : ScrapeAgain(data)

SpecHistory == Init /\ [][NextHistory]_vars

----------------------------------------------------------------------------
(* Quantities as the API may write them: runs of one fund that meet no     *)
(* error, with batches whose shares cells are empty, zero, signed, grouped *)
(* by a comma or not a number.                                             *)

SharesCells ==
    {<<>>, <<"0">>, <<"-", "1">>, <<"1", ",", "0">>, <<"x">>}
    \cup {DigitsOf(n) : n \in 1..MaxShares}

QuantityRows(d) ==
    {RawRow(d, c, NameOf(c), DigitsOf(w), cell) :
        c \in Stocks, w \in RawWeights, cell \in SharesCells}

QuantityBatches ==
    {b \in UNION {SeqsUpTo(QuantityRows(d), MaxBatch) : d \in Dates} : b /= <<>>}

ScrapeQuantities(data) == Scrape(DetectFund, data, {"none"}, MaxRuns)

NextQuantity == \E data \in QuantityBatches : ScrapeQuantities(data)

SpecQuantity == Init /\ [][NextQuantity]_vars

----------------------------------------------------------------------------
(* Runs of one fund that execute at the same time, each on a connection of *)
(* its own, and a read query on another connection.  A row version is      *)
(* [tbl, id, key, row, xmin, xmax]: xmin is the run whose open transaction *)
(* inserted the row (0 once committed) and xmax the run whose open         *)
(* transaction deleted it (0 when none).  On PostgreSQL a statement sees   *)
(* the committed rows and its own transaction's work, waits for a row that *)
(* another open transaction deleted, and an INSERT waits for an open       *)
(* transaction that holds the same key of idx_unique_holding.  On SQLite   *)
(* one connection at a time holds the write lock, from its first DELETE    *)
(* to its commit or rollback.                                              *)

MaxSessions == 2

ConcurrentKeys == {DetectFund} \X Dates

\* Batches of usable rows for different instruments, all with one quantity.
ConcurrentBatches ==
    {b \in HistoryBatches : \A i \in DOMAIN b : b[i].cells[5] = DigitsOf(1)}

\* The sequence of the rows of a set of versions, in insertion order.
RECURSIVE SortedRows(_)
SortedRows(versions) ==
    IF versions = {} THEN <<>>
    ELSE LET first == CHOOSE v \in versions : \A u \in versions : v.id <= u.id
         IN <<first.row>> \o SortedRows(versions \ {first})

\* The write transaction of run w is open: its first DELETE has started.
InTransaction(w) == c_writer[w].pc \notin {"idle", "delete_holdings"}

\* SQLite: another connection holds the write lock.
WriteLockHeld(w) == \E u \in Writers \ {w} : InTransaction(u)

\* What a statement of run w sees: committed rows and rows of its own
\* transaction, without the rows its own transaction deleted.
StatementVisible(v, w) == v.xmin \in {0, w} /\ v.xmax /= w

QueryVisible_Dirty(v) == v.xmax = 0

\* What a query outside any transaction sees: the committed rows.
QueryVisible(v) == v.xmin = 0

\* The rows a DELETE of run w finds for a key.
Targets(w, tbl, key) ==
    {v \in c_versions : v.tbl = tbl /\ v.key = key /\ StatementVisible(v, w)}

\* The key (etf_code, date) of a run, from its first holding.
RunKey(w) == <<c_writer[w].holdings[1].etf_code, c_writer[w].holdings[1].update_date>>

\* The versions that hold the unique key of the holding run w inserts next.
Conflicts(w) ==
    LET holding == c_writer[w].holdings[c_writer[w].at]
    IN {v \in c_versions :
           /\ v.tbl = "holdings"
           /\ v.key = RunKey(w)
           /\ v.row.stock_code = holding.stock_code
           /\ v.xmax /= w}

\* The open transactions the next statement of run w waits for.
BlockedBy(w) ==
    IF c_writer[w].pc = "wait"
    THEN {v.xmax : v \in {u \in c_versions : u.id \in c_writer[w].pending}} \ {0, w}
    ELSE IF c_writer[w].pc = "insert_holdings" /\ UniqueIndexEnforced(db_type)
    THEN ({v.xmin : v \in Conflicts(w)} \cup {v.xmax : v \in Conflicts(w)}) \ {0, w}
    ELSE {}

\* conn.commit(): the transaction's deletes and inserts become the stored rows.
CommitVersions(versions, w) ==
    {[v EXCEPT !.xmin = IF v.xmin = w THEN 0 ELSE v.xmin] :
        v \in {u \in versions : u.xmax /= w}}

\* conn.rollback(): the transaction's inserts vanish, its deletes are undone.
RollbackVersions(versions, w) ==
    {[v EXCEPT !.xmax = IF v.xmax = w THEN 0 ELSE v.xmax] :
        v \in {u \in versions : u.xmin /= w}}

\* The committed rows of a table, per key, in insertion order.
TableOf(versions, tbl) ==
    [k \in Keys |->
        SortedRows({v \in versions : v.tbl = tbl /\ v.key = k /\ v.xmin = 0})]

\* Steps 1 to 3 of scrape_single_etf: the batch is parsed and compared with
\* the stored prior snapshot.
AnalyzeBatch(w, data) ==
    /\ d_phase = "off"
    /\ c_writer[w].pc = "idle"
    /\ runs < MaxSessions
    /\ \E today \in Clock(data) :
        \E parsed \in {ParseHoldingsData(data, DetectFund, today)} :
            /\ parsed /= <<>>
            /\ c_writer' = [c_writer EXCEPT ![w] =
                   [pc |-> "delete_holdings", holdings |-> parsed,
                    changes |-> AnalyzeHoldingsChanges(holdings, DetectFund, parsed,
                                                       parsed[1].update_date, "none"),
                    at |-> 1, pending |-> {}, returned |-> "none"]]
    /\ runs' = runs + 1
    /\ UNCHANGED <<db_type, allrun, pool, store, last, detector, parser, crossview, web,
                   c_versions, c_next, c_outputs, c_seen>>

\* A DELETE of the rows of the run's key in one table: it marks the rows it
\* finds, or waits when another open transaction has deleted one of them.
DeleteStatement(w, tbl, next) ==
    /\ c_writer[w].pc = "delete_" \o tbl
    /\ db_type = "sqlite" => ~WriteLockHeld(w)
    /\ LET targets == Targets(w, tbl, RunKey(w))
       IN IF \A v \in targets : v.xmax = 0
          THEN /\ c_versions' = (c_versions \ targets)
                                \cup {[v EXCEPT !.xmax = w] : v \in targets}
               /\ c_writer' = [c_writer EXCEPT ![w].pc = next]
          ELSE /\ c_versions' = c_versions
               /\ c_writer' = [c_writer EXCEPT ![w].pc = "wait",
                                               ![w].pending = {v.id : v \in targets}]
    /\ UNCHANGED <<db_type, allrun, pool, store, runs, last, detector, parser, crossview, web,
                   c_next, c_outputs, c_seen>>

DeleteHoldingsStatement(w) == DeleteStatement(w, "holdings", "delete_changes")

DeleteChangesStatement(w) == DeleteStatement(w, "changes", "insert_holdings")

\* The waiting DELETE goes on once the other transaction has ended: it
\* deletes the rows it had found that are still there.
ResumeDelete(w) ==
    /\ c_writer[w].pc = "wait"
    /\ BlockedBy(w) = {}
    /\ LET targets == {v \in c_versions : v.id \in c_writer[w].pending}
       IN c_versions' = (c_versions \ targets) \cup {[v EXCEPT !.xmax = w] : v \in targets}
    /\ c_writer' = [c_writer EXCEPT ![w].pc = "delete_changes", ![w].pending = {}]
    /\ UNCHANGED <<db_type, allrun, pool, store, runs, last, detector, parser, crossview, web,
                   c_next, c_outputs, c_seen>>

\* One INSERT of the loop of step 2.
InsertHoldingStatement(w) ==
    /\ c_writer[w].pc = "insert_holdings"
    /\ UniqueIndexEnforced(db_type) => Conflicts(w) = {}
    /\ LET run == c_writer[w]
           holding == run.holdings[run.at]
       IN /\ c_versions' = c_versions \cup
                 {[tbl |-> "holdings", id |-> c_next, key |-> RunKey(w),
                   row |-> holding, xmin |-> w, xmax |-> 0]}
          /\ c_writer' = [c_writer EXCEPT
                 ![w].pc = IF run.at < Len(run.holdings) THEN "insert_holdings"
                           ELSE IF run.changes /= <<>> THEN "insert_changes"
                           ELSE "commit",
                 ![w].at = IF run.at < Len(run.holdings) THEN run.at + 1 ELSE 1]
    /\ c_next' = c_next + 1
    /\ UNCHANGED <<db_type, allrun, pool, store, runs, last, detector, parser, crossview, web, c_outputs, c_seen>>

\* One INSERT of the loop of step 3.
InsertChangeStatement(w) ==
    /\ c_writer[w].pc = "insert_changes"
    /\ LET run == c_writer[w]
           change == run.changes[run.at]
       IN /\ c_versions' = c_versions \cup
                 {[tbl |-> "changes", id |-> c_next,
                   key |-> <<change.etf_code, change.change_date>>,
                   row |-> change, xmin |-> w, xmax |-> 0]}
          /\ c_writer' = [c_writer EXCEPT
                 ![w].pc = IF run.at < Len(run.changes) THEN "insert_changes" ELSE "commit",
                 ![w].at = run.at + 1]
    /\ c_next' = c_next + 1
    /\ UNCHANGED <<db_type, allrun, pool, store, runs, last, detector, parser, crossview, web, c_outputs, c_seen>>

\* Step 4: conn.commit(), and the run returns True.
CommitStatement(w) ==
    /\ c_writer[w].pc = "commit"
    /\ c_versions' = CommitVersions(c_versions, w)
    /\ holdings' = TableOf(c_versions', "holdings")
    /\ changes' = TableOf(c_versions', "changes")
    /\ c_outputs' = c_outputs \cup
           {[key |-> RunKey(w), holdings |-> c_writer[w].holdings,
             changes |-> c_writer[w].changes]}
    /\ c_writer' = [c_writer EXCEPT ![w] = [Idle EXCEPT !.returned = "True"]]
    /\ UNCHANGED <<db_type, allrun, pool, holdings_run, changes_run, runs, last, detector, parser, crossview, web,
                   c_next, c_seen>>

\* The handler of lines 543-557: conn.rollback(), and the run returns False.
Abort(w) ==
    /\ c_versions' = RollbackVersions(c_versions, w)
    /\ c_writer' = [c_writer EXCEPT ![w] = [Idle EXCEPT !.returned = "False"]]
    /\ UNCHANGED <<db_type, allrun, pool, store, runs, last, detector, parser, crossview, web,
                   c_next, c_outputs, c_seen>>

\* PostgreSQL: the INSERT meets a stored row, or a row of its own
\* transaction, with the same (etf_code, stock_code, update_date).
RaiseUniqueViolation(w) ==
    /\ c_writer[w].pc = "insert_holdings"
    /\ UniqueIndexEnforced(db_type)
    /\ \E v \in Conflicts(w) : v.xmin \in {0, w} /\ v.xmax = 0
    /\ Abort(w)

\* PostgreSQL: two transactions wait for each other; one statement raises.
RaiseDeadlock(w) ==
    /\ \E u \in BlockedBy(w) : w \in BlockedBy(u)
    /\ Abort(w)

\* SQLite: the write lock is not released within the busy timeout and the
\* first DELETE raises "database is locked".
RaiseLocked(w) ==
    /\ c_writer[w].pc = "delete_holdings"
    /\ db_type = "sqlite"
    /\ WriteLockHeld(w)
    /\ Abort(w)

\* A read query of execute_query for the rows of one fund and date in both tables;
\* during records how far the open transactions on that day were when it ran.
ReadQuery(key) ==
    /\ d_phase = "off"
    /\ c_seen = NothingSeen
    /\ c_seen' = [key |-> key,
                  holdings |-> SortedRows({v \in c_versions :
                      v.tbl = "holdings" /\ v.key = key /\ QueryVisible(v)}),
                  changes |-> SortedRows({v \in c_versions :
                      v.tbl = "changes" /\ v.key = key /\ QueryVisible(v)}),
                  during |-> {c_writer[w].pc : w \in {x \in Writers :
                      InTransaction(x) /\ RunKey(x) = key}}]
    /\ UNCHANGED <<db_type, allrun, pool, store, runs, last, detector, parser, crossview, web,
                   c_versions, c_next, c_writer,
                   c_outputs>>

\* What an earlier run left: nothing, or the snapshot of the first date.
StoredBatches == {<<>>} \cup {b \in ConcurrentBatches : b[1].cells[1] = 1}

EmptyDatabase ==
    [holdings |-> [k \in Keys |-> <<>>], changes |-> [k \in Keys |-> <<>>],
     holdings_run |-> [k \in Keys |-> 0], changes_run |-> [k \in Keys |-> 0]]

\* The committed versions of the rows of a table, numbered from an id.
VersionsOf(tbl, key, rows, from) ==
    {[tbl |-> tbl, id |-> from + i, key |-> key, row |-> rows[i], xmin |-> 0, xmax |-> 0] :
        i \in DOMAIN rows}

InitConcurrent ==
    /\ db_type \in DbTypes
    /\ \E data \in StoredBatches :
        \E out \in {ScrapeOutcome(EmptyDatabase, DetectFund,
                                   ParseHoldingsData(data, DetectFund, MaxDate),
                                   "none", 0, db_type)} :
            LET key == <<DetectFund, 1>>
            IN /\ holdings = out.db.holdings
               /\ changes = out.db.changes
               /\ holdings_run = out.db.holdings_run
               /\ changes_run = out.db.changes_run
               /\ c_versions =
                      VersionsOf("holdings", key, out.db.holdings[key], 0)
                      \cup VersionsOf("changes", key, out.db.changes[key],
                                      Len(out.db.holdings[key]))
               /\ c_next = Len(out.db.holdings[key]) + Len(out.db.changes[key]) + 1
               /\ c_outputs = IF data = <<>> THEN {}
                              ELSE {[key |-> key, holdings |-> out.db.holdings[key],
                                     changes |-> out.db.changes[key]]}
    /\ runs = 0
    /\ last = NoRun
    /\ d_previous = <<>>
    /\ d_current = <<>>
    /\ d_changes = <<>>
    /\ d_phase = "off"
    /\ c_writer = [w \in Writers |-> Idle]
    /\ c_seen = NothingSeen
    /\ ParserOff
    /\ ViewOff
    /\ WebOff
    /\ AllOff
    /\ PoolOff

NextConcurrent ==
    \/ \E w \in Writers, data \in ConcurrentBatches : AnalyzeBatch(w, data)
    \/ \E w \in Writers : DeleteHoldingsStatement(w)
    \/ \E w \in Writers : DeleteChangesStatement(w)
    \/ \E w \in Writers : ResumeDelete(w)
    \/ \E w \in Writers : InsertHoldingStatement(w)
    \/ \E w \in Writers : InsertChangeStatement(w)
    \/ \E w \in Writers : CommitStatement(w)
    \/ \E w \in Writers : RaiseUniqueViolation(w)
    \/ \E w \in Writers : RaiseDeadlock(w)
    \/ \E w \in Writers : RaiseLocked(w)
    \/ \E key \in ConcurrentKeys : ReadQuery(key)

SpecConcurrent == InitConcurrent /\ [][NextConcurrent]_vars

----------------------------------------------------------------------------
(* The change detector on its own: any prior map against any current batch *)

DetectDate == MaxDate

DetectNames == {"TSMC"}

DetectValues == [stock_name : DetectNames, weight : 0..MaxWeight, shares : 0..MaxShares]

\* Dicts of at most MaxPrior entries: sequences of pairs with different keys.
PriorMaps ==
    {d \in SeqsUpTo(DetectStocks \X DetectValues, MaxPrior) :
        \A i, j \in DOMAIN d : i /= j => d[i][1] /= d[j][1]}

CurrentBatches ==
    SeqsUpTo([etf_code : {DetectFund}, stock_code : DetectStocks,
              stock_name : DetectNames, weight : 0..MaxWeight, shares : 0..MaxShares,
              update_date : {DetectDate}], MaxCurrent)

InitDetect ==
    /\ db_type = "sqlite"
    /\ holdings = [k \in Keys |-> <<>>]
    /\ changes = [k \in Keys |-> <<>>]
    /\ holdings_run = [k \in Keys |-> 0]
    /\ changes_run = [k \in Keys |-> 0]
    /\ runs = 0
    /\ last = NoRun
    /\ d_previous \in PriorMaps
    /\ d_current \in CurrentBatches
    /\ d_changes = <<>>
    /\ d_phase = "input"
    /\ c_versions = {}
    /\ c_next = 1
    /\ c_writer = [w \in Writers |-> Idle]
    /\ c_outputs = {}
    /\ c_seen = NothingSeen
    /\ ParserOff
    /\ ViewOff
    /\ WebOff
    /\ AllOff
    /\ PoolOff

Detect ==
    /\ d_phase = "input"
    /\ d_changes' = DetectChanges(DetectFund, d_current, d_previous, DetectDate)
    /\ d_phase' = "done"
    /\ UNCHANGED <<db_type, allrun, pool, store, runs, last, d_previous, d_current, concurrent,
                   parser, crossview, web>>

NextDetect == Detect

SpecDetect == InitDetect /\ [][NextDetect]_vars

----------------------------------------------------------------------------
(* The parser on its own: parse_holdings_data applied to any Data array of *)
(* at most MaxParse elements: rows with or without a date, a code, a name  *)
(* and the unit cell, and elements that are null instead of a row.         *)

MaxParse == 2

\* The null element: it has no len().
NullRow == [sized |-> FALSE, cells |-> <<>>]

ParseDateCells == {BadDate} \cup Dates

ParseCodeCells == {"2330", "", " ", None}

ParseNameCells == {"TSMC", ""}

\* Weight and quantity cells of a row: both numbers, or both not numbers.
ParseValueCells == {<<DigitsOf(1), DigitsOf(MaxShares)>>, <<<<"x">>, <<"x">>>>}

\* A row without its last cell, the unit.
ShortRow(row) == [sized |-> TRUE, cells |-> SubSeq(row.cells, 1, 5)]

ParseRowsFull ==
    {RawRow(d, c, n, v[1], v[2]) :
        d \in ParseDateCells, c \in ParseCodeCells, n \in ParseNameCells,
        v \in ParseValueCells}

ParseElements ==
    ParseRowsFull
    \cup {ShortRow(RawRow(d, "2330", "TSMC", DigitsOf(1), DigitsOf(1))) : d \in ParseDateCells}
    \cup {NullRow}

ParseBatches == SeqsUpTo(ParseElements, MaxParse)

InitParse ==
    /\ db_type = "sqlite"
    /\ holdings = [k \in Keys |-> <<>>]
    /\ changes = [k \in Keys |-> <<>>]
    /\ holdings_run = [k \in Keys |-> 0]
    /\ changes_run = [k \in Keys |-> 0]
    /\ runs = 0
    /\ last = NoRun
    /\ d_previous = <<>>
    /\ d_current = <<>>
    /\ d_changes = <<>>
    /\ d_phase = "off"
    /\ c_versions = {}
    /\ c_next = 1
    /\ c_writer = [w \in Writers |-> Idle]
    /\ c_outputs = {}
    /\ c_seen = NothingSeen
    /\ p_data \in ParseBatches
    /\ p_today \in Dates
    /\ p_out = <<>>
    /\ p_phase = "input"
    /\ ViewOff
    /\ WebOff
    /\ AllOff
    /\ PoolOff

Parse ==
    /\ p_phase = "input"
    /\ p_out' = ParseHoldingsData(p_data, DetectFund, p_today)
    /\ p_phase' = "done"
    /\ UNCHANGED <<db_type, allrun, pool, store, runs, last, detector, concurrent, p_data, p_today,
                   crossview, web>>

NextParse == Parse

SpecParse == InitParse /\ [][NextParse]_vars

----------------------------------------------------------------------------
(* The cross-fund view: after up to MaxRuns runs that store a day of a     *)
(* fund, one grouping query for a date, by get_cross_holdings              *)
(* (fastapi_app_cloud.py, either backend) or by get_cross_etf_holdings     *)
(* (fastapi_app.py, SQLite only). The API may spell the name of an         *)
(* instrument in two ways.                                                 *)

\* A second spelling of an instrument's name.
OtherName(stock_code) == IF stock_code = "2330" THEN "Taiwan Semi" ELSE "Foxconn"

ViewRowsOf(d) ==
    UNION {{RawRow(d, c, n, DigitsOf(1), DigitsOf(q)) :
               n \in {NameOf(c), OtherName(c)}, q \in 1..MaxShares} : c \in Stocks}

\* Batches of one date whose rows name different instruments.
ViewBatches ==
    UNION {{b \in SeqsUpTo(ViewRowsOf(d), MaxBatch) :
               /\ b /= <<>>
               /\ \A i, j \in DOMAIN b : i /= j => b[i].cells[2] /= b[j].cells[2]} :
           d \in Dates}

ScrapeForView(etf_code, data) ==
    /\ v_app = "none"
    /\ Scrape(etf_code, data, {"none"}, MaxRuns)

\* FROM etf_holdings WHERE update_date = date: the rows, by fund and position.
RowsOn(date) == UNION {{<<f, i>> : i \in DOMAIN holdings[<<f, date>>]} : f \in Funds}

RowAt(at, date) == holdings[<<at[1], date>>][at[2]]

\* GROUP BY stock_code, stock_name
GroupsOn(date) ==
    {<<RowAt(at, date).stock_code, RowAt(at, date).stock_name>> : at \in RowsOn(date)}

GroupRows(group, date) ==
    {at \in RowsOn(date) :
        RowAt(at, date).stock_code = group[1] /\ RowAt(at, date).stock_name = group[2]}

\* COUNT(DISTINCT etf_code)
CountDistinctEtf(rows) == Cardinality({at[1] : at \in rows})

\* SUM(shares)
RECURSIVE SumShares(_, _)
SumShares(rows, date) ==
    IF rows = {} THEN 0
    ELSE LET at == CHOOSE x \in rows : TRUE
         IN RowAt(at, date).shares + SumShares(rows \ {at}, date)

GroupRow(group, date) ==
    [stock_code |-> group[1], stock_name |-> group[2],
     etf_count |-> CountDistinctEtf(GroupRows(group, date)),
     total_shares |-> SumShares(GroupRows(group, date), date)]

\* HAVING COUNT(DISTINCT etf_code) > 1
CrossHoldingsRows(date) ==
    {GroupRow(g, date) : g \in {x \in GroupsOn(date) :
        CountDistinctEtf(GroupRows(x, date)) > 1}}

\* HAVING COUNT(DISTINCT etf_code) >= 2
CrossEtfHoldingsRows(date) ==
    {GroupRow(g, date) : g \in {x \in GroupsOn(date) :
        CountDistinctEtf(GroupRows(x, date)) >= 2}}

\* ORDER BY total_shares DESC: any order of the rows with no total rising.
OrderedByTotal(rows) ==
    {s \in [1..Cardinality(rows) -> rows] :
        /\ \A i, j \in DOMAIN s : i /= j => s[i] /= s[j]
        /\ \A i, j \in DOMAIN s : i < j => s[i].total_shares >= s[j].total_shares}

\* LIMIT 10 of the query for the earlier rows in get_cross_holdings.
PrevLimit == 10

Min(S) == CHOOSE x \in S : \A y \in S : x <= y

\* The stored rows of an instrument, by fund, date and position.
RowsOfStock(stock_code) ==
    UNION {{<<k[1], k[2], i>> : i \in {x \in DOMAIN holdings[k] :
               holdings[k][x].stock_code = stock_code}} : k \in Keys}

StoredRow(at) == holdings[<<at[1], at[2]>>][at[3]]

\* WHERE stock_code = .. AND update_date = ..  ORDER BY shares DESC: any
\* order of the day's rows of the instrument with no quantity rising.
DetailOrders(stock_code, date) ==
    LET rows == {at \in RowsOfStock(stock_code) : at[2] = date}
    IN {s \in [1..Cardinality(rows) -> rows] :
           /\ \A i, j \in DOMAIN s : i /= j => s[i] /= s[j]
           /\ \A i, j \in DOMAIN s : i < j => StoredRow(s[i]).shares >= StoredRow(s[j]).shares}

\* WHERE stock_code = .. AND update_date < ..  ORDER BY update_date DESC
\* LIMIT 10: the sets of rows the query can return.
EarlierRows(stock_code, date) ==
    LET rows == {at \in RowsOfStock(stock_code) : at[2] < date}
        n == IF Cardinality(rows) < PrevLimit THEN Cardinality(rows) ELSE PrevLimit
    IN {T \in SUBSET rows :
           /\ Cardinality(T) = n
           /\ \A a \in T, b \in rows \ T : a[2] >= b[2]}

\* prev_dict of get_cross_holdings read with .get(etf_code, 0): the dict
\* comprehension keeps for a fund the last of its rows, the one of the least
\* date among the rows returned.
PrevDicts(stock_code, date) ==
    {prev \in [Funds -> {0} \cup {StoredRow(at).shares : at \in RowsOfStock(stock_code)}] :
        \E T \in EarlierRows(stock_code, date) :
            \A f \in Funds :
                LET mine == {at \in T : at[1] = f}
                IN IF mine = {} THEN prev[f] = 0
                   ELSE \E at \in mine :
                           /\ at[2] = Min({x[2] : x \in mine})
                           /\ prev[f] = StoredRow(at).shares}

\* previous_dict of get_cross_etf_holdings: the rows of the greatest earlier
\* date on which any fund held the instrument.
PreviousDicts(stock_code, date) ==
    LET rows == {at \in RowsOfStock(stock_code) : at[2] < date}
        latest == {at \in rows : at[2] = Max({x[2] : x \in rows})}
    IN {prev \in [Funds -> {0} \cup {StoredRow(at).shares : at \in RowsOfStock(stock_code)}] :
           \A f \in Funds :
               LET mine == {at \in latest : at[1] = f}
               IN IF mine = {} THEN prev[f] = 0
                  ELSE \E at \in mine : prev[f] = StoredRow(at).shares}

EtfDetail(at, prev) ==
    [etf_code |-> at[1], shares |-> StoredRow(at).shares, weight |-> StoredRow(at).weight,
     previous_shares |-> prev[at[1]], change |-> StoredRow(at).shares - prev[at[1]]]

\* total_increase and total_decrease over the first n details.
RECURSIVE TotalIncrease(_, _)
TotalIncrease(details, n) ==
    IF n = 0 THEN 0
    ELSE TotalIncrease(details, n - 1)
         + (IF details[n].change > 0 THEN details[n].change ELSE 0)

RECURSIVE TotalDecrease(_, _)
TotalDecrease(details, n) ==
    IF n = 0 THEN 0
    ELSE TotalDecrease(details, n - 1)
         + (IF details[n].change < 0 THEN 0 - details[n].change ELSE 0)

\* One row of the view with its per-fund details.
CrossHolding(row, order, prev) ==
    LET etf_details == [i \in DOMAIN order |-> EtfDetail(order[i], prev)]
    IN [stock_code |-> row.stock_code, stock_name |-> row.stock_name,
        etf_count |-> row.etf_count, total_shares |-> row.total_shares,
        total_increase |-> TotalIncrease(etf_details, Len(etf_details)),
        total_decrease |-> TotalDecrease(etf_details, Len(etf_details)),
        etf_details |-> etf_details]

\* The grouping row a row of the view was built from.
GroupRowOf(holding) ==
    [stock_code |-> holding.stock_code, stock_name |-> holding.stock_name,
     etf_count |-> holding.etf_count, total_shares |-> holding.total_shares]

\* The lists the loop over the grouping rows can build.
CrossHoldings(rows, date, app) ==
    LET built == UNION {{CrossHolding(row, order, prev) :
                            order \in DetailOrders(row.stock_code, date),
                            prev \in IF app = "cloud"
                                     THEN PrevDicts(row.stock_code, date)
                                     ELSE PreviousDicts(row.stock_code, date)} : row \in rows}
    IN {s \in [1..Cardinality(rows) -> built] :
           [i \in DOMAIN s |-> GroupRowOf(s[i])] \in OrderedByTotal(rows)}

\* get_cross_holdings: the queries are written with %s placeholders, which
\* sqlite3 rejects; execute_query of DatabaseQuery then returns [].
GetCrossHoldings(date) ==
    /\ d_phase = "off"
    /\ v_app = "none"
    /\ v_app' = "cloud"
    /\ v_date' = date
    /\ v_view' \in IF db_type = "sqlite" THEN {<<>>}
                   ELSE CrossHoldings(CrossHoldingsRows(date), date, "cloud")
    /\ UNCHANGED <<db_type, allrun, pool, store, runs, last, detector, concurrent, parser, web>>

\* get_cross_etf_holdings of the SQLite application.
GetCrossEtfHoldings(date) ==
    /\ d_phase = "off"
    /\ db_type = "sqlite"
    /\ v_app = "none"
    /\ v_app' = "local"
    /\ v_date' = date
    /\ v_view' \in CrossHoldings(CrossEtfHoldingsRows(date), date, "local")
    /\ UNCHANGED <<db_type, allrun, pool, store, runs, last, detector, concurrent, parser, web>>

NextView ==
    \/ \E etf_code \in Funds, data \in ViewBatches : ScrapeForView(etf_code, data)
    \/ \E date \in Dates : GetCrossHoldings(date)
    \/ \E date \in Dates : GetCrossEtfHoldings(date)

SpecView == Init /\ [][NextView]_vars

----------------------------------------------------------------------------
(* The per-fund changes of the cross-fund view: up to MaxHistory runs that *)
(* store one instrument for a fund and a date, in any order of the dates,  *)
(* then one query of the view.                                             *)

DetailBatches ==
    {<<RawRow(d, "2330", NameOf("2330"), DigitsOf(1), DigitsOf(q))>> :
        d \in Dates, q \in 1..MaxShares}

ScrapeForDetail(etf_code, data) ==
    /\ v_app = "none"
    /\ Scrape(etf_code, data, {"none"}, MaxHistory)

NextDetail ==
    \/ \E etf_code \in Funds, data \in DetailBatches : ScrapeForDetail(etf_code, data)
    \/ \E date \in Dates : GetCrossHoldings(date)
    \/ \E date \in Dates : GetCrossEtfHoldings(date)

SpecDetail == Init /\ [][NextDetail]_vars

----------------------------------------------------------------------------
(* scrape_all_etfs: one run over the registry of funds                     *)

\* self.etf_codes, the registry in its order; the model keeps two funds.
EtfCodes == <<"00980A", "00981A">>

\* The responses of the data source for one fund: none, or one position.
AllBatches == {<<>>} \cup DetailBatches

\* scrape_all_etfs is called: the counters are set and the loop starts.
StartAll ==
    /\ a_i = 0
    /\ d_phase = "off"
    /\ runs + Len(EtfCodes) <= MaxAll * Len(EtfCodes)
    /\ a_i' = 1
    /\ a_success_count' = 0
    /\ a_failed_etfs' = <<>>
    /\ a_attempted' = <<>>
    /\ a_committed' = <<>>
    /\ a_returned' = -1
    /\ UNCHANGED <<db_type, store, runs, last, detector, concurrent, parser, crossview,
                   web, pool>>

\* A loop that does not go on after a fund that failed.
AfterFund_StopOnFailure(i, ok) == IF ok THEN i + 1 ELSE Len(EtfCodes) + 1

\* The position of the loop after the fund at position i: the for statement
\* goes on to the next fund whatever scrape_single_etf returned.
AfterFund(i, ok) == i + 1

\* One pass of the loop body: scrape_single_etf for the fund at position i,
\* then success_count or failed_etfs is updated.
AttemptFund(data) ==
    /\ a_i \in 1..Len(EtfCodes)
    /\ ScrapeCall(EtfCodes[a_i], data, Faults, MaxAll * Len(EtfCodes))
    /\ a_attempted' = Append(a_attempted, EtfCodes[a_i])
    /\ a_committed' = IF holdings_run' /= holdings_run
                      THEN Append(a_committed, EtfCodes[a_i])
                      ELSE a_committed
    /\ a_success_count' = IF last'.ok THEN a_success_count + 1 ELSE a_success_count
    /\ a_failed_etfs' = IF last'.ok THEN a_failed_etfs
                        ELSE Append(a_failed_etfs, EtfCodes[a_i])
    /\ a_i' = AfterFund(a_i, last'.ok)
    /\ a_returned' = a_returned

\* After the loop: the summary is logged (its query only reads, and its
\* exceptions are swallowed) and success_count is returned.
FinishAll ==
    /\ a_i = Len(EtfCodes) + 1
    /\ a_returned' = a_success_count
    /\ a_i' = 0
    /\ UNCHANGED <<db_type, store, runs, last, detector, concurrent, parser, crossview,
                   web, pool, a_success_count, a_failed_etfs, a_attempted, a_committed>>

NextAll ==
    \/ StartAll
    \/ \E data \in AllBatches : AttemptFund(data)
    \/ FinishAll

\* The loop is one thread of control that nothing suspends: a pass that can
\* be taken is taken.
SpecAll ==
    /\ Init
    /\ [][NextAll]_vars
    /\ WF_vars(\E data \in AllBatches : AttemptFund(data))
    /\ WF_vars(FinishAll)

NextConn ==
    \/ \E u \in Users, op \in Operations : BeginUse(u, op)
    \/ \E u \in Users, fails \in BOOLEAN : GetConn(u, fails)
    \/ \E u \in Users : AutocommitOff(u)
    \/ \E u \in Users, raises \in BOOLEAN, more \in BOOLEAN : Statement(u, raises, more)
    \/ \E u \in Users, raises \in BOOLEAN : CommitUse(u, raises)
    \/ \E u \in Users : RollbackUse(u)
    \/ \E u \in Users : Restore(u)
    \/ \E u \in Users, raises \in BOOLEAN : ExecuteQuery(u, raises)
    \/ \E u \in Users : ExitExcept(u)
    \/ \E u \in Users : ExitFinally(u)

SpecConn == Init /\ [][NextConn]_vars

----------------------------------------------------------------------------
(* The web application on its own: requests of one client and the clock.   *)

NextWeb ==
    \/ \E request \in WebRequests({"10.0.0.1"}) : HandleRequest(request)
    \/ Tick

\* The requests modelled do not read the database.
InitWeb == Init /\ db_type = "postgresql"

SpecWeb == InitWeb /\ [][NextWeb]_vars

----------------------------------------------------------------------------
(* The rate limiter: requests of two clients without a session to the      *)
(* pages and to the API.                                                   *)

RateRequests ==
    [method : {"GET"}, path : {"/", "/api/holdings", "/health"}, ip : Ips,
     cookie : {0}, password : {""}]

NextRate ==
    \/ \E request \in RateRequests : HandleRequest(request)
    \/ Tick

SpecRate == InitWeb /\ [][NextRate]_vars

----------------------------------------------------------------------------
(* Claims about the change detector (checked under SpecDetect) *)

InCurrent(s) == \E i \in DOMAIN d_current : d_current[i].stock_code = s

InPrevious(s) == \E i \in DOMAIN d_previous : d_previous[i][1] = s

\* The batch's row for instrument s: the last one when the batch repeats s.
CurrentOf(s) == d_current[Max({j \in DOMAIN d_current : d_current[j].stock_code = s})]

PreviousOf(s) == d_previous[CHOOSE i \in DOMAIN d_previous : d_previous[i][1] = s][2]

\* Positions of the records of one type for instrument s in the result.
RecordsOf(s, type) ==
    {i \in DOMAIN d_changes :
        d_changes[i].stock_code = s /\ d_changes[i].change_type = type}

\* C1: the detector emits exactly one NEW record (old quantity 0, new
\* quantity the batch's quantity) for each instrument of the batch that the
\* prior map lacks, exactly one REMOVED record (new quantity 0, old quantity
\* the prior quantity) for each instrument of the prior map that the batch
\* lacks, and no NEW or REMOVED record for any other instrument.
C1_NewAndRemovedExact ==
    d_phase = "done" =>
        \A s \in DetectStocks :
            /\ Cardinality(RecordsOf(s, "NEW")) =
                   (IF InCurrent(s) /\ ~InPrevious(s) THEN 1 ELSE 0)
            /\ \A i \in RecordsOf(s, "NEW") :
                   /\ d_changes[i].old_shares = 0
                   /\ d_changes[i].new_shares = CurrentOf(s).shares
            /\ Cardinality(RecordsOf(s, "REMOVED")) =
                   (IF InPrevious(s) /\ ~InCurrent(s) THEN 1 ELSE 0)
            /\ \A i \in RecordsOf(s, "REMOVED") :
                   /\ d_changes[i].new_shares = 0
                   /\ d_changes[i].old_shares = PreviousOf(s).shares

\* A run of the detector with a new, a removed and a kept instrument.
C1_Witness ==
    /\ d_phase = "done"
    /\ \E s \in DetectStocks : InCurrent(s) /\ ~InPrevious(s) /\ RecordsOf(s, "NEW") /= {}
    /\ \E s \in DetectStocks : InPrevious(s) /\ ~InCurrent(s) /\ RecordsOf(s, "REMOVED") /= {}
    /\ \E s \in DetectStocks : InPrevious(s) /\ InCurrent(s)

\* C2: for an instrument in both the prior map and the batch the detector
\* emits exactly one INCREASED record when the batch quantity is greater,
\* exactly one DECREASED record when it is smaller, and no record of any
\* type when the quantities are equal, whatever the weights are.
C2_QuantityDrivesChange ==
    d_phase = "done" =>
        \A s \in DetectStocks :
            (InCurrent(s) /\ InPrevious(s)) =>
                LET cur == CurrentOf(s)
                    old == PreviousOf(s)
                    all == {i \in DOMAIN d_changes : d_changes[i].stock_code = s}
                IN /\ cur.shares > old.shares =>
                          /\ Cardinality(all) = 1
                          /\ \A i \in all : /\ d_changes[i].change_type = "INCREASED"
                                            /\ d_changes[i].old_shares = old.shares
                                            /\ d_changes[i].new_shares = cur.shares
                   /\ cur.shares < old.shares =>
                          /\ Cardinality(all) = 1
                          /\ \A i \in all : /\ d_changes[i].change_type = "DECREASED"
                                            /\ d_changes[i].old_shares = old.shares
                                            /\ d_changes[i].new_shares = cur.shares
                   /\ cur.shares = old.shares => all = {}

\* A run with a weight-only change (no record) next to a quantity increase.
C2_Witness ==
    /\ d_phase = "done"
    /\ \E s \in DetectStocks :
          /\ InCurrent(s) /\ InPrevious(s)
          /\ CurrentOf(s).shares = PreviousOf(s).shares
          /\ CurrentOf(s).weight /= PreviousOf(s).weight
          /\ \A i \in DOMAIN d_changes : d_changes[i].stock_code /= s
    /\ \E s \in DetectStocks : RecordsOf(s, "INCREASED") /= {}
                               \/ RecordsOf(s, "DECREASED") /= {}

----------------------------------------------------------------------------
(* Claims about the reconciliation (checked under Spec) *)

\* A step of the model that is one call of scrape_single_etf.
IsRun == runs' = runs + 1

\* The fund and date the most recent call was about.
LastKey == <<last.etf, last.date>>

\* The errors save_to_database can meet once it has opened its transaction.
SaveErrors == {"delete_holdings", "delete_changes", "insert_holdings",
               "unique_violation", "insert_changes", "commit"}

\* C3: when a statement of save_to_database raises, before or after the
\* day's rows were deleted, the transaction is rolled back: both tables are
\* exactly as before the run, for every fund and date, and the run returns False.
C3_RollbackOnSaveFailure ==
    [][(IsRun /\ last'.error \in SaveErrors) =>
          (holdings' = holdings /\ changes' = changes /\ ~last'.ok)]_vars

\* A run that replaced an existing day and failed between the Holding
\* inserts and the Change inserts; the day still has its rows.
C3_Witness ==
    /\ last.error = "insert_changes"
    /\ ~last.ok
    /\ holdings[LastKey] /= <<>>
    /\ changes[LastKey] /= <<>>

\* C4: a second run with the same fund, date and rows as the run before it
\* leaves the Holding and Change rows of that fund and date as the first
\* run left them.
C4_RerunChangesNothing ==
    [][(IsRun /\ last'.rerun /\ last'.ok) =>
          LET k == <<last'.etf, last'.date>>
          IN holdings'[k] = holdings[k] /\ changes'[k] = changes[k]]_vars

\* The diff of the stored snapshot of (etf, date) against the stored prior snapshot.
DiffAgainstStoredPrior(etf, date) ==
    DetectChanges(etf, holdings[<<etf, date>>],
                  GetPreviousHoldings(holdings, etf, date, FALSE), date)

\* C5: after a successful run the Holding rows of the day are exactly the
\* rows of the batch and the Change rows of the day are exactly the diff of
\* the batch against the prior snapshot.
C5_DayIsBatchAndItsDiff ==
    last.ok =>
        /\ holdings[LastKey] = last.rows
        /\ changes[LastKey] = DiffAgainstStoredPrior(last.etf, last.date)

\* C6: a run whose batch has no usable row deletes nothing and writes
\* nothing, in either table, and returns False.
C6_EmptyBatchNoOp ==
    [][(IsRun /\ last'.usable = 0) =>
          (holdings' = holdings /\ changes' = changes /\ ~last'.ok)]_vars

\* A run with a batch of blank rows only, for a day that has data.
C6_Witness ==
    /\ last.usable = 0
    /\ last.date /= 0
    /\ holdings[LastKey] /= <<>>
    /\ changes[LastKey] /= <<>>

\* C7: after every run, committed or failed, the Holding rows and the
\* Change rows of each fund and date were last replaced by the same run.
C7_SnapshotAndChangesOfOneRun ==
    \A k \in Keys : holdings_run[k] = changes_run[k]

\* A day written by the first run; the second run deleted its Holding rows
\* and failed on the next statement: both tables are still the first run's.
C7_Witness ==
    /\ runs = 2
    /\ last.error = "delete_changes"
    /\ holdings[LastKey] /= <<>>
    /\ holdings_run[LastKey] = 1
    /\ changes_run[LastKey] = 1

\* C8: when change detection fails the run writes and deletes nothing and
\* returns False.
C8_DetectionFailureRollsBack ==
    [][(IsRun /\ last'.error = "detect") =>
          (holdings' = holdings /\ changes' = changes /\ ~last'.ok)]_vars

\* C9: when the look-up of the prior snapshot raises the run fails and
\* writes nothing.
C9_LookupFailureFailsRun ==
    [][(IsRun /\ last'.error = "lookup") =>
          (holdings' = holdings /\ changes' = changes /\ ~last'.ok)]_vars

\* C10: no two Holding rows share (fund_code, instrument_code, as_of_date).
C10_HoldingKeyUnique ==
    \A k \in Keys : \A i, j \in DOMAIN holdings[k] :
        i /= j => holdings[k][i].stock_code /= holdings[k][j].stock_code

----------------------------------------------------------------------------
(* Claims about stored quantities (checked under SpecQuantity) *)

ChangeTypes == {"NEW", "INCREASED", "DECREASED", "REMOVED"}

\* C11: every stored Change row has one of the four change types, and
\* INCREASED has new_quantity > old_quantity, DECREASED has new_quantity <
\* old_quantity, NEW has old_quantity = 0 < new_quantity, REMOVED has
\* new_quantity = 0 < old_quantity.
C11_ChangeRowsWellFormed ==
    \A k \in Keys : \A i \in DOMAIN changes[k] :
        LET c == changes[k][i]
        IN /\ c.change_type \in ChangeTypes
           /\ c.change_type = "INCREASED" => c.new_shares > c.old_shares
           /\ c.change_type = "DECREASED" => c.new_shares < c.old_shares
           /\ c.change_type = "NEW" => (c.old_shares = 0 /\ 0 < c.new_shares)
           /\ c.change_type = "REMOVED" => (c.new_shares = 0 /\ 0 < c.old_shares)

\* C17: every quantity stored in a Holding row and every old and new
\* quantity stored in a Change row is a non-negative integer.
C17_StoredQuantitiesNonNegative ==
    \A k \in Keys :
        /\ \A i \in DOMAIN holdings[k] : holdings[k][i].shares >= 0
        /\ \A i \in DOMAIN changes[k] :
              changes[k][i].old_shares >= 0 /\ changes[k][i].new_shares >= 0

----------------------------------------------------------------------------
(* Claims about the prior snapshot and the frame of a run (checked under Spec) *)

\* The stored dates of a fund that lie strictly before a date.
StoredDatesBefore(etf, date) ==
    {d \in Dates : d < date /\ holdings[<<etf, d>>] /= <<>>}

\* Holding rows as a mapping from instrument code to (name, weight, quantity).
RowsAsMap(rows) ==
    [i \in DOMAIN rows |->
        <<rows[i].stock_code,
          [stock_name |-> rows[i].stock_name, weight |-> rows[i].weight,
           shares |-> rows[i].shares]>>]

\* The Holding rows of the greatest stored date of the fund before the date.
LatestPriorRows(etf, date) ==
    IF StoredDatesBefore(etf, date) = {} THEN <<>>
    ELSE holdings[<<etf, CHOOSE d \in StoredDatesBefore(etf, date) :
                             \A e \in StoredDatesBefore(etf, date) : e <= d>>]

\* C12: in every run, after any sequence of runs, the prior map that
\* get_previous_holdings(F, D) returns is exactly the Holding rows of F at
\* the greatest stored date strictly before D, and the empty map when F has
\* no stored date before D.
C12_PriorIsLatestEarlierSnapshot ==
    [][(IsRun /\ last'.ok) =>
          last'.previous = RowsAsMap(LatestPriorRows(last'.etf, last'.date))]_vars

\* C13: a run for a fund with no stored snapshot before the batch's date,
\* in which no storage statement raises, succeeds and stores exactly one NEW
\* record for each instrument of the batch and no record of another type.
C13_FirstIngestionAllNew ==
    [][(/\ IsRun
        /\ last'.usable > 0
        /\ StoredDatesBefore(last'.etf, last'.date) = {}
        /\ last'.error \notin SaveErrors) =>
          LET found == changes'[<<last'.etf, last'.date>>]
              batch == last'.rows
          IN /\ last'.ok
             /\ \A i \in DOMAIN found :
                   /\ found[i].change_type = "NEW"
                   /\ \E j \in DOMAIN batch : batch[j].stock_code = found[i].stock_code
             /\ \A j \in DOMAIN batch :
                   Cardinality({i \in DOMAIN found :
                                   found[i].stock_code = batch[j].stock_code}) = 1]_vars

\* C14: a run for fund F whose batch is dated D, committed or failed, leaves
\* the Holding and Change rows of every other fund and of F at every other
\* date as they were.
C14_OtherKeysUntouched ==
    [][IsRun =>
          \A k \in Keys :
              k /= <<last'.etf, last'.date>> =>
                  (holdings'[k] = holdings[k] /\ changes'[k] = changes[k])]_vars

\* A committed run for a fund and date while the other fund has rows, with
\* change records, at the same date.
C14_Witness ==
    /\ runs = 2
    /\ last.ok
    /\ \E f \in Funds :
          /\ f /= last.etf
          /\ holdings[<<f, last.date>>] /= <<>>
          /\ changes[<<f, last.date>>] /= <<>>

----------------------------------------------------------------------------
(* Claims about runs and queries at the same time (checked under SpecConcurrent) *)

\* C15: whatever runs of one fund execute at the same time, the committed
\* Holding and Change rows of each fund and date are the output of exactly
\* one committed run: the rows that run had to store, with no row of
\* another run among them and no row twice.
C15_DayIsOneRunsOutput ==
    \A k \in ConcurrentKeys :
        (holdings[k] /= <<>> \/ changes[k] /= <<>>) =>
            \E o \in c_outputs :
                o.key = k /\ holdings[k] = o.holdings /\ changes[k] = o.changes

----------------------------------------------------------------------------
(* Claims about the parser (checked under SpecParse) *)

\* The positions of the rows of a Data array that give a Holding candidate.
ValidPositions(data) ==
    {i \in DOMAIN data :
        /\ data[i].sized
        /\ Len(data[i].cells) >= 6
        /\ IsUsableRow(data[i])}

\* C18: all candidates parse_holdings_data gives for one batch carry the
\* same date, and it is the date on the first valid row of the batch (the
\* day of the clock when that row's date cannot be parsed); dates on later
\* rows are ignored.
C18_BatchDateOfFirstValidRow ==
    (p_phase = "done" /\ p_out /= <<>>) =>
        LET first == CHOOSE i \in ValidPositions(p_data) :
                         \A j \in ValidPositions(p_data) : i <= j
        IN \A k \in DOMAIN p_out :
              p_out[k].update_date = ParseDateFromApi(p_data[first].cells[1], p_today)

\* A cell that names no instrument: null, empty or blank.
IsMissing(cell) == cell = None \/ cell = "" \/ cell = " "

\* The positions of the complete rows that have an instrument code and a name.
NamedPositions(data) ==
    {i \in DOMAIN data :
        /\ data[i].sized
        /\ Len(data[i].cells) >= 6
        /\ ~IsMissing(data[i].cells[2])
        /\ ~IsMissing(data[i].cells[3])}

\* What a weight or quantity cell is worth: its number, or 0 when it is none.
NumberOr0(cell) ==
    IF cell /= <<>> /\ \A i \in DOMAIN cell : IsDigit(cell[i]) THEN DigitsValue(cell) ELSE 0

\* Code, weight and quantity of the rows at the positions, in the batch's order.
RECURSIVE CandidatesAt(_, _, _)
CandidatesAt(data, positions, n) ==
    IF n = 0 THEN <<>>
    ELSE IF n \in positions
         THEN Append(CandidatesAt(data, positions, n - 1),
                     <<data[n].cells[2], NumberOr0(data[n].cells[4]),
                       NumberOr0(data[n].cells[5])>>)
         ELSE CandidatesAt(data, positions, n - 1)

\* C19: parse_holdings_data drops every row whose instrument code or name
\* is missing or empty and keeps every other row of the batch, in order; a
\* weight or quantity that is not a number becomes 0, and a bad row neither
\* aborts the batch nor removes a valid row.
C19_DropsExactlyUnnamedRows ==
    p_phase = "done" =>
        [k \in DOMAIN p_out |-> <<p_out[k].stock_code, p_out[k].weight, p_out[k].shares>>]
            = CandidatesAt(p_data, NamedPositions(p_data), Len(p_data))

----------------------------------------------------------------------------
(* Claims about the cross-fund view (checked under SpecView) *)

\* The funds that hold the instrument on the date.
HoldersOf(stock_code, date) ==
    {f \in Funds : \E i \in DOMAIN holdings[<<f, date>>] :
        holdings[<<f, date>>][i].stock_code = stock_code}

\* The sum of the quantities of the instrument over all funds on the date.
TotalOf(stock_code, date) ==
    SumShares({at \in RowsOn(date) : RowAt(at, date).stock_code = stock_code}, date)

\* C20: for every date D the cross-fund view lists exactly the instruments,
\* identified by instrument code, that two or more funds hold on D, each
\* once, with etf_count the number of funds that hold it on D and the total
\* the sum of those funds' quantities on D.
C20_ViewListsSharedInstruments ==
    v_app /= "none" =>
        /\ {<<v_view[i].stock_code, v_view[i].etf_count, v_view[i].total_shares>> :
               i \in DOMAIN v_view}
             = {<<c, Cardinality(HoldersOf(c, v_date)), TotalOf(c, v_date)>> :
                   c \in {x \in Stocks : Cardinality(HoldersOf(x, v_date)) >= 2}}
        /\ \A i, j \in DOMAIN v_view :
               i /= j => v_view[i].stock_code /= v_view[j].stock_code

\* The Change Log records of a fund for an instrument and a date.
ChangeRecordsOf(etf_code, stock_code, date) ==
    {changes[<<etf_code, date>>][i] : i \in {x \in DOMAIN changes[<<etf_code, date>>] :
        changes[<<etf_code, date>>][x].stock_code = stock_code}}

\* C21: for each instrument of the cross-fund view at date D and each fund
\* holding it, the previous quantity, current quantity and delta shown are
\* those of the fund's Change Log record for that instrument and date, and
\* are "no change" (previous = current, delta 0) when there is no record.
C21_DetailsFollowChangeLog ==
    v_app /= "none" =>
        \A i \in DOMAIN v_view : \A k \in DOMAIN v_view[i].etf_details :
            LET detail == v_view[i].etf_details[k]
                records == ChangeRecordsOf(detail.etf_code, v_view[i].stock_code, v_date)
            IN IF records = {}
               THEN detail.previous_shares = detail.shares /\ detail.change = 0
               ELSE \E record \in records :
                       /\ detail.previous_shares = record.old_shares
                       /\ detail.shares = record.new_shares
                       /\ detail.change = record.new_shares - record.old_shares

----------------------------------------------------------------------------
(* Claims about the web application (checked under SpecWeb and SpecRate) *)

\* The request answered last carried the id of a session that a login had
\* created, that had not expired and that had not been deleted.
SessionValidAtArrival ==
    /\ w_last.cookie \in 1..Len(w_issued)
    /\ w_last.cookie \notin w_ended
    /\ w_last.at - w_issued[w_last.cookie] <= SessionTimeout

C23_ApiAnswers401 ==
    (IsApiPath(w_last.path) /\ ~SessionValidAtArrival) => w_last.status = 401

\* A step that is a POST to /login.
IsLoginStep ==
    /\ w_last' /= w_last
    /\ w_last'.path = "/login"
    /\ w_last'.method = "POST"

\* C24: POST /login creates a session and issues its id as the cookie if and
\* only if the password is the configured one; a wrong password creates no
\* session, leaves the session table as it was and redirects to the login page.
C24_LoginOnlyWithPassword ==
    [][IsLoginStep =>
        IF w_last'.password = WebPassword
        THEN /\ w_last'.set_cookie /= 0
             /\ \E s \in w_sessions' : s.id = w_last'.set_cookie
             /\ ~\E s \in w_sessions : s.id = w_last'.set_cookie
        ELSE /\ w_last'.set_cookie = 0
             /\ w_sessions' = w_sessions
             /\ w_last'.status = 302
             /\ w_last'.location = "/login?error"]_vars

\* A wrong password submitted while another session is open.
C24_Witness ==
    /\ w_last.path = "/login"
    /\ w_last.method = "POST"
    /\ w_last.password /= WebPassword
    /\ w_last.status = 302
    /\ w_sessions /= {}

\* C27: a session id validates only from its creation by a successful login
\* to the earlier of creation + session_timeout and its logout; requests do
\* not extend that time, and an id that has expired or was logged out never
\* validates again.
C27_SessionLifetime ==
    w_last.validated =>
        /\ w_last.cookie \in 1..Len(w_issued)
        /\ w_last.at - w_issued[w_last.cookie] <= SessionTimeout
        /\ w_last.cookie \notin w_ended

\* A session validated in the last tick of its life after an earlier request
\* had used it.
C27_Witness ==
    /\ w_last.validated
    /\ w_last.at - w_issued[w_last.cookie] = SessionTimeout
    /\ \E s \in w_sessions : s.id = w_last.cookie /\ s.last_access = w_last.at
    /\ w_ended /= {}

\* C28: for each client IP at most rate_limit_requests admitted web requests
\* lie within one hour; a request beyond the limit is answered 429 and is
\* not recorded, and a request is admitted as soon as fewer than the limit
\* remain within the hour.
C28_HourlyLimit ==
    [][/\ \A ip \in Ips : Len(w_admitted'[ip]) <= RateLimitRequests
       /\ \A ip \in Ips :
             w_admitted'[ip] = Append(w_admitted[ip], w_now) =>
                 Len(w_admitted[ip]) < RateLimitRequests
       /\ (/\ w_now' = w_now
           /\ w_last'.status = 429
           /\ ~IsApiPath(w_last'.path)
           /\ (w_last' /= w_last \/ w_requests' /= w_requests)) =>
              /\ Len(w_admitted[w_last'.ip]) >= RateLimitRequests
              /\ Len(w_requests'[w_last'.ip]) <= Len(w_requests[w_last'.ip])
              /\ w_admitted' = w_admitted]_vars

\* A client refused with 429 after the first hour while the other client
\* has requests admitted.
C28_Witness ==
    /\ w_last.status = 429
    /\ w_last.path = "/"
    /\ w_last.at >= HourLen
    /\ w_last.at = w_now
    /\ Len(w_admitted[w_last.ip]) = RateLimitRequests
    /\ \E ip \in Ips \ {w_last.ip} : w_admitted[ip] /= <<>>

----------------------------------------------------------------------------
(* Claims about the Change Log after several runs (checked under SpecDetail) *)

Range(seq) == {seq[i] : i \in DOMAIN seq}

\* C25: after any sequence of successful runs of a fund, with dates
\* ingested out of order and earlier dates run again, the Change rows stored
\* for every stored date D of fund F are the diff between F's stored
\* snapshot at D and F's stored snapshot at the greatest stored date before
\* D (all NEW when there is none).
C25_ChangesAreDiffOfStoredSnapshots ==
    \A k \in Keys :
        holdings[k] /= <<>> =>
            Range(changes[k])
                = Range(DetectChanges(k[1], holdings[k],
                                      RowsAsMap(LatestPriorRows(k[1], k[2])), k[2]))

----------------------------------------------------------------------------
(* Claims about runs for different dates at the same time (checked under   *)
(* SpecConcurrent)                                                         *)

\* A step in which run w commits.
CommitsIn(w) == c_writer[w].pc = "commit" /\ c_writer'[w].returned = "True"

----------------------------------------------------------------------------
(* Claims about a run over all funds (checked under SpecAll)               *)

----------------------------------------------------------------------------
(* Claims about database connections (checked under SpecConn)              *)

\* C30: every connection obtained through get_connection is released on
\* every exit path of its user, exceptions included: it is back in the
\* PostgreSQL pool, or closed for SQLite; save_to_database hands a pooled
\* connection back with the autocommit value it had at acquisition and with
\* no transaction open; and the connections checked out are exactly those of
\* the users inside a with block, so that none is checked out when every
\* user has ended.
C30_ConnectionsReleased ==
    /\ Cardinality(CheckedOut) = Cardinality(InBlock)
    /\ \A u \in Users :
           IF u \in InBlock THEN k_user[u].conn /= 0 /\ k_conn[k_user[u].conn].out = u
           ELSE k_user[u].conn = 0
    /\ \A c \in Conns :
           k_conn[c].out = 0 =>
               /\ ~k_conn[c].txn
               /\ db_type = "sqlite" => ~k_conn[c].open
               /\ (k_conn[c].by = "save" /\ k_conn[c].open) =>
                      k_conn[c].autocommit = k_conn[c].acquired

\* A save_to_database whose transaction raised has ended and its connection
\* is back in the pool.
C30_Witness ==
    \E u \in Users, c \in Conns :
        /\ k_user[u].pc = "idle"
        /\ k_user[u].op = "save"
        /\ k_user[u].returned = "False"
        /\ k_user[u].acquired = "True"
        /\ k_conn[c].out = 0
        /\ k_conn[c].by = "save"
        /\ k_conn[c].open
        /\ CheckedOut = {}

====
